---- MODULE Spec2Model ----
(***************************************************************************)
(* A model of the emojicopy server (src/server/routes.ts): the HTTP        *)
(* handlers of registerRoutes, generateSeoContent and seedDatabase, over   *)
(* the catalog store (emojis) and the page store (pages).                  *)
(*                                                                         *)
(* Strings are sequences of one-character strings, so that toLowerCase,    *)
(* the two regular-expression replacements of the slug, the ' emoji'       *)
(* replacement and split/join are computed character by character.         *)
(* The storage module and the seed data are not part of the source tree;   *)
(* their operations are modelled from the specification's description of   *)
(* the stores.                                                             *)
(***************************************************************************)
EXTENDS Integers, Sequences, FiniteSets, TLC

\* ------------------------------------------------------------- bounds

\* Longest keyword drawn for the slug calculator.
MaxLen == 4
\* Highest copy count a model run lets an emoji reach.
MaxCopies == 2
\* Emojis in the seed catalog (one "dog", the others "cat": more than 20 match).
NumEmojis == 22
\* Ungenerated stubs in the database the batch specification starts from.
StubsBatch == 6
\* The largest small number of ungenerated stubs of the bulk database.
StubsBulk == 11

\* ------------------------------------------------------ program constants

\* storage.getUngeneratedPages(5)
BatchLimit == 5
\* allEmojis.slice(0, 20)
RelatedLimit == 20
\* relatedEmojis.slice(0, 10) in generateSeoContent
SampleLimit == 10
\* const batchSize = 50 in seedDatabase
batchSize == 50
\* storage.getTrending(50)
TrendingLimit == 50

\* ------------------------------------------------------------ strings

LowerLetters == {"a", "b", "c", "d", "e", "g", "i", "j", "m", "o", "t", "x"}
Digits == {"0", "1", "2", "3", "4", "5", "6", "7", "8", "9"}

\* String.prototype.toLowerCase, one character.
LowerChar(c) ==
  CASE c = "A" -> "a" [] c = "B" -> "b" [] c = "C" -> "c" [] c = "D" -> "d"
    [] c = "E" -> "e" [] c = "G" -> "g" [] c = "I" -> "i" [] c = "J" -> "j"
    [] c = "M" -> "m" [] c = "O" -> "o" [] c = "T" -> "t" [] c = "X" -> "x"
    [] OTHER -> c

\* String.prototype.toUpperCase, one character.
UpperChar(c) ==
  CASE c = "a" -> "A" [] c = "b" -> "B" [] c = "c" -> "C" [] c = "d" -> "D"
    [] c = "e" -> "E" [] c = "g" -> "G" [] c = "i" -> "I" [] c = "j" -> "J"
    [] c = "m" -> "M" [] c = "o" -> "O" [] c = "t" -> "T" [] c = "x" -> "X"
    [] OTHER -> c

toLowerCase(s) == [i \in 1..Len(s) |-> LowerChar(s[i])]

\* The character class [a-z0-9].
IsAlnum(c) == c \in LowerLetters \cup Digits

\* .replace(/[^a-z0-9]+/g, '-'): every maximal run of characters outside
\* a-z and 0-9 becomes one '-'.
RECURSIVE ReplaceRuns(_)
ReplaceRuns(s) ==
  IF s = <<>> THEN <<>>
  ELSE IF IsAlnum(Head(s)) THEN <<Head(s)>> \o ReplaceRuns(Tail(s))
  ELSE IF Len(s) > 1 /\ ~IsAlnum(s[2]) THEN ReplaceRuns(Tail(s))
  ELSE <<"-">> \o ReplaceRuns(Tail(s))

\* A mutant of StripEnds: the g flag is missing, so only the first match is
\* removed.
StripEndsFirstOnly(s) ==
  IF Len(s) > 0 /\ s[1] = "-" THEN Tail(s)
  ELSE IF Len(s) > 0 /\ s[Len(s)] = "-" THEN SubSeq(s, 1, Len(s) - 1)
  ELSE s

\* .replace(/^-|-$/g, ''): a '-' at the start is removed, then a '-' at the
\* end of what is left.
StripEnds(s) ==
  LET a == IF Len(s) > 0 /\ s[1] = "-" THEN Tail(s) ELSE s
  IN  IF Len(a) > 0 /\ a[Len(a)] = "-" THEN SubSeq(a, 1, Len(a) - 1) ELSE a

\* The slug generate looks a page up by, lines 74-76:
\* keyword.toLowerCase().replace(/[^a-z0-9]+/g, '-').replace(/^-|-$/g, '')
Slugify(keyword) == StripEnds(ReplaceRuns(toLowerCase(keyword)))

\* A mutant of CreateSlug: the separators at the ends are left in place.
CreateSlugNoStrip(keyword) == ReplaceRuns(toLowerCase(keyword))

\* The slug generate stores on a page it creates, line 97: the same
\* expression, written out a second time.
CreateSlug(keyword) == StripEnds(ReplaceRuns(toLowerCase(keyword)))

\* Whether pat occurs in s starting at position i.
MatchesAt(s, pat, i) ==
  /\ i + Len(pat) - 1 <= Len(s)
  /\ \A j \in 1..Len(pat) : s[i + j - 1] = pat[j]

\* String.prototype.indexOf, 1-based; 0 when pat does not occur.
RECURSIVE IndexFrom(_, _, _)
IndexFrom(s, pat, i) ==
  IF i + Len(pat) - 1 > Len(s) THEN 0
  ELSE IF MatchesAt(s, pat, i) THEN i
  ELSE IndexFrom(s, pat, i + 1)

StrEmoji == <<" ", "e", "m", "o", "j", "i">>

\* A mutant of CleanKeyword: only a ' emoji' at the very end is removed.
CleanKeywordSuffixOnly(keyword) ==
  LET n == Len(keyword) - Len(StrEmoji)
  IN  IF n >= 0 /\ MatchesAt(keyword, StrEmoji, n + 1)
      THEN SubSeq(keyword, 1, n) ELSE keyword

\* keyword.replace(' emoji', ''): with a string pattern, replace removes
\* the first occurrence only, wherever it is.
CleanKeyword(keyword) ==
  LET at == IndexFrom(keyword, StrEmoji, 1)
  IN  IF at = 0 THEN keyword
      ELSE SubSeq(keyword, 1, at - 1)
             \o SubSeq(keyword, at + Len(StrEmoji), Len(keyword))

\* keyword.split(' ').map(w => w.charAt(0).toUpperCase() + w.slice(1)).join(' '):
\* the first character of every space-separated piece is upper-cased.
TitleCase(keyword) ==
  [i \in 1..Len(keyword) |->
     IF i = 1 \/ keyword[i - 1] = " " THEN UpperChar(keyword[i]) ELSE keyword[i]]

\* ------------------------------------------------------------- options

\* A value that may be absent (null / undefined) is a sequence of length 0 or 1.
None == <<>>
Some(v) == <<v>>
IsSome(o) == Len(o) = 1

\* ---------------------------------------------------------- seed data

StrCat == <<"c", "a", "t">>
StrDog == <<"d", "o", "g">>

\* EMOJI_DATA of seed-emojis: the catalog rows inserted at first startup.
\* Row 1 is a dog, every other row a cat; even rows carry a description.
EMOJI_DATA ==
  [i \in 1..NumEmojis |->
     [emoji |-> "g" \o ToString(i),
      name |-> IF i = 1 THEN StrDog ELSE StrCat,
      slug |-> (IF i = 1 THEN StrDog ELSE StrCat) \o <<"-", ToString(i)>>,
      category |-> IF i = 1 THEN "animals" ELSE "pets",
      description |-> IF i % 2 = 0 THEN Some(<<"d", "e">>) ELSE None,
      keywords |-> IF i = 1 THEN <<<<"b", "a", "t">>>> ELSE <<>>]]

\* TOP_KEYWORDS of seed-emojis: the fixed keyword list of the page stubs.
\* The third keyword has the slug of the first.
TOP_KEYWORDS ==
  << StrCat \o StrEmoji, StrDog \o StrEmoji, <<"C", "a", "t">> \o StrEmoji >>

StrCopyPaste == <<" - Copy & Paste">>

\* The title given to a page for a keyword (routes.ts line 98).
PageTitle(keyword) == TitleCase(keyword) \o StrCopyPaste

\* The meta description given to a page for a keyword (routes.ts line 100).
PageMeta(keyword) ==
  <<"Copy and paste ">> \o keyword \o <<" instantly! Find the best ">>
    \o keyword \o <<" for messages, social media, and more.">>

\* generateSeoPages of seed-emojis: one ungenerated stub per keyword.
generateSeoPages(keywords) ==
  [i \in 1..Len(keywords) |->
     [slug |-> Slugify(keywords[i]),
      title |-> PageTitle(keywords[i]),
      keyword |-> keywords[i],
      metaDescription |-> PageMeta(keywords[i]),
      content |-> None,
      relatedEmojis |-> None,
      isGenerated |-> FALSE]]

\* ------------------------------------------------------ catalog store

\* storage.getEmojiCount
getEmojiCount(es) == Len(es)

\* storage.createEmojis: the rows are appended with serial ids and a copy
\* count of 0.
createEmojis(es, batch) ==
  es \o [i \in 1..Len(batch) |->
           [id |-> Len(es) + i,
            emoji |-> batch[i].emoji,
            name |-> batch[i].name,
            slug |-> batch[i].slug,
            category |-> batch[i].category,
            description |-> batch[i].description,
            keywords |-> batch[i].keywords,
            copyCount |-> 0]]

\* Case-insensitive substring test.
Contains(s, q) == IndexFrom(toLowerCase(s), toLowerCase(q), 1) # 0

EmojiMatches(e, search) ==
  \/ Contains(e.name, search)
  \/ \E k \in 1..Len(e.keywords) : Contains(e.keywords[k], search)

\* storage.getEmojis(search): the rows whose name or keywords contain the
\* search text, in id order.
getEmojis(es, search) == SelectSeq(es, LAMBDA e : EmojiMatches(e, search))

EmojiIds(es) == {es[i].id : i \in 1..Len(es)}

\* storage.incrementCopyCount: a known id gets its count raised by one and the
\* new count is returned; an unknown id changes nothing and returns nothing.
incrementCopyCount(es, id) ==
  IF id \in EmojiIds(es)
  THEN [store |-> [i \in 1..Len(es) |->
                     IF es[i].id = id
                     THEN [es[i] EXCEPT !.copyCount = @ + 1] ELSE es[i]],
        result |-> Some((CHOOSE e \in {es[i] : i \in 1..Len(es)} : e.id = id).copyCount + 1)]
  ELSE [store |-> es, result |-> None]

\* storage.getEmojiBySlug: the row with that slug, if any.
getEmojiBySlug(es, slug) ==
  LET hit == SelectSeq(es, LAMBDA e : e.slug = slug)
  IN  IF hit = <<>> THEN None ELSE Some(hit[1])

\* storage.getEmojis(search, category) of the listing: each filter applies
\* when it is given.
listEmojis(es, search, category) ==
  SelectSeq(es, LAMBDA e :
    /\ (IsSome(search) => EmojiMatches(e, search[1]))
    /\ (IsSome(category) => e.category = category[1]))

\* storage.getCategories: the categories of the catalog, each once, in the
\* order of their first row.
getCategories(es) ==
  LET firsts == SelectSeq([i \in 1..Len(es) |-> i],
                          LAMBDA i : \A j \in 1..(i - 1) : es[j].category # es[i].category)
  IN  [k \in 1..Len(firsts) |-> es[firsts[k]].category]

\* The rows of the set by falling copy count; rows of equal count in id
\* order.
RECURSIVE ByCopyCount(_)
ByCopyCount(rows) ==
  IF rows = {} THEN <<>>
  ELSE LET top == CHOOSE e \in rows :
                    \A o \in rows :
                      \/ e.copyCount > o.copyCount
                      \/ (e.copyCount = o.copyCount /\ e.id <= o.id)
       IN  <<top>> \o ByCopyCount(rows \ {top})

\* storage.getTrending(limit): the limit most copied rows.
getTrending(es, limit) ==
  LET sorted == ByCopyCount({es[i] : i \in 1..Len(es)})
  IN  SubSeq(sorted, 1, IF Len(sorted) < limit THEN Len(sorted) ELSE limit)

\* --------------------------------------------------------- page store

\* storage.getPages: every row.
getPages(ps) == ps

PageIds(ps) == {ps[i].id : i \in 1..Len(ps)}

\* storage.getPageBySlug
getPageBySlug(ps, slug) ==
  LET hit == SelectSeq(ps, LAMBDA pg : pg.slug = slug)
  IN  IF hit = <<>> THEN None ELSE Some(hit[1])

\* A mutant of createPage: the slug is not looked up, a row is always added.
createPageAlways(ps, page) ==
  LET row == [id |-> Len(ps) + 1,
              slug |-> page.slug,
              title |-> page.title,
              keyword |-> page.keyword,
              metaDescription |-> page.metaDescription,
              content |-> page.content,
              relatedEmojis |-> page.relatedEmojis,
              isGenerated |-> page.isGenerated]
  IN  [store |-> Append(ps, row), result |-> Some(row)]

\* storage.createPage: a new row with the next id; a row whose slug is
\* already taken is ignored, the store stays as it is and no row is returned.
createPage(ps, page) ==
  IF IsSome(getPageBySlug(ps, page.slug))
  THEN [store |-> ps, result |-> None]
  ELSE LET row == [id |-> Len(ps) + 1,
                   slug |-> page.slug,
                   title |-> page.title,
                   keyword |-> page.keyword,
                   metaDescription |-> page.metaDescription,
                   content |-> page.content,
                   relatedEmojis |-> page.relatedEmojis,
                   isGenerated |-> page.isGenerated]
       IN  [store |-> Append(ps, row), result |-> Some(row)]

\* The fields an update may carry; an absent field (undefined) is not written.
NoFields ==
  [slug |-> None, keyword |-> None, title |-> None, metaDescription |-> None,
   content |-> None, relatedEmojis |-> None, isGenerated |-> None]

ApplyFields(pg, f) ==
  [id |-> pg.id,
   slug |-> IF IsSome(f.slug) THEN f.slug[1] ELSE pg.slug,
   keyword |-> IF IsSome(f.keyword) THEN f.keyword[1] ELSE pg.keyword,
   title |-> IF IsSome(f.title) THEN f.title[1] ELSE pg.title,
   metaDescription |->
     IF IsSome(f.metaDescription) THEN f.metaDescription[1] ELSE pg.metaDescription,
   content |-> IF IsSome(f.content) THEN f.content ELSE pg.content,
   relatedEmojis |->
     IF IsSome(f.relatedEmojis) THEN f.relatedEmojis ELSE pg.relatedEmojis,
   isGenerated |-> IF IsSome(f.isGenerated) THEN f.isGenerated[1] ELSE pg.isGenerated]

\* storage.updatePage: the given fields of the row with that id are written
\* and the row is returned; an unknown id changes nothing and returns nothing.
updatePage(ps, id, f) ==
  IF id \in PageIds(ps)
  THEN LET new == [i \in 1..Len(ps) |->
                     IF ps[i].id = id THEN ApplyFields(ps[i], f) ELSE ps[i]]
       IN  [store |-> new,
            result |-> Some((CHOOSE pg \in {new[i] : i \in 1..Len(new)} : pg.id = id))]
  ELSE [store |-> ps, result |-> None]

\* storage.getUngeneratedPages(limit): the first rows, in id order, that
\* are not generated.
getUngeneratedPages(ps, limit) ==
  LET un == SelectSeq(ps, LAMBDA pg : ~pg.isGenerated)
  IN  IF Len(un) > limit THEN SubSeq(un, 1, limit) ELSE un

\* -------------------------------------------------- content generator

\* Array.prototype.slice(0, n)
Take(s, n) == IF Len(s) > n THEN SubSeq(s, 1, n) ELSE s

\* Array.prototype.join: the strings of parts with sep between them.
RECURSIVE Join(_, _)
Join(parts, sep) ==
  IF parts = <<>> THEN <<>>
  ELSE IF Len(parts) = 1 THEN parts[1]
  ELSE parts[1] \o sep \o Join(Tail(parts), sep)

\* e.description || 'A popular emoji for expressing ' + cleanKeyword
DescriptionOf(e, cleanKeyword) ==
  IF IsSome(e.description) /\ e.description[1] # <<>>
  THEN e.description[1]
  ELSE <<"A popular emoji for expressing ">> \o cleanKeyword

\* generateSeoContent: the markdown document as a string whose fixed template
\* text is kept in whole pieces and whose interpolated text is kept
\* character by character.
generateSeoContent(keyword, relatedEmojis) ==
  LET title == TitleCase(keyword)
      first == Take(relatedEmojis, SampleLimit)
      emojiSamples ==
        Join([i \in 1..Len(first) |-> <<first[i].emoji, " ">> \o first[i].name],
             <<", ">>)
      cleanKeyword == CleanKeyword(keyword)
      items ==
        Join([i \in 1..Len(first) |->
                <<"- ", first[i].emoji, " **">> \o first[i].name \o <<"** - ">>
                  \o DescriptionOf(first[i], cleanKeyword)],
             <<"\n">>)
  IN  <<"# ">> \o title \o <<" - Copy & Paste\n\nLooking for the perfect **">>
        \o keyword \o <<"** to use in your messages? ...\n\n## Popular ">>
        \o title \o <<"s\n\n">> \o items \o <<"\n\n## How to Use ">> \o title
        \o <<"\n\nUsing ">> \o keyword \o <<"s is easy! ...\n\n### Where to Use ">>
        \o title \o <<"\n\n- **Text Messages** ...\n\n## About ">> \o title
        \o <<"\n\nThe ">> \o keyword \o <<" is one of the most popular emojis ... ">>
        \o (IF Len(relatedEmojis) > 0
            THEN <<"Related emojis include ">> \o emojiSamples \o <<".">>
            ELSE <<>>)
        \o <<"\n\n## Frequently Asked Questions\n\n### How do I copy the ">>
        \o keyword \o <<"?\nSimply click ...\n\n### Can I use the ">> \o keyword
        \o <<" on any device?\nYes! ...\n\n### What does the ">> \o keyword
        \o <<" mean?\nThe ">> \o keyword
        \o <<" is commonly used to express feelings related to ">> \o cleanKeyword
        \o <<". Its meaning can vary slightly depending on context and culture.">>

\* A mutant of RelatedEmojiChars: the slice is missing.
RelatedEmojiCharsAll(allEmojis) == [i \in 1..Len(allEmojis) |-> allEmojis[i].emoji]

\* allEmojis.slice(0, 20).map(e => e.emoji)
RelatedEmojiChars(allEmojis) ==
  LET first == Take(allEmojis, RelatedLimit)
  IN  [i \in 1..Len(first) |-> first[i].emoji]

\* --------------------------------------------------------------- state

VARIABLES
  emojis,   \* the catalog store: the emoji rows, in id order
  pages,    \* the page store: the page rows, in id order
  boot,     \* the startup of registerRoutes: where seedDatabase stands and
            \* the last line it logged
  proc,     \* per client, the request it has in flight and the handler's locals
  calc,     \* the slug calculator: a keyword and the slugs derived from it
  admin,    \* the admin page: the state of its bulk-generate loop
  visitor   \* the page view of a visitor: its query, effect and mutation

vars == <<emojis, pages, boot, proc, calc, admin, visitor>>

\* The clients that may have a request in flight at the same time.
Clients == {"c1", "c2"}

NoResponse ==
  [status |-> 0, page |-> None, count |-> None, message |-> "",
   emoji |-> None, rows |-> None]

\* A client with no request in flight.
Idle ==
  [pc |-> "idle", kind |-> "none", keyword |-> None, id |-> 0, slug |-> None,
   failed |-> FALSE,
   existingPage |-> None, search |-> None, allEmojis |-> <<>>,
   ungenerated |-> <<>>, i |-> 0, generated |-> 0, wrote |-> {},
   resp |-> NoResponse]

NoCalc == [keyword |-> None, lookup |-> None, stored |-> None, again |-> None]

\* The admin page before the bulk action is started: useState(0),
\* useState(false).
\* requests counts the generate-batch requests of the running bulk action;
\* data is the body of the last response, caught whether the catch block ran.
AdminIdle ==
  [pc |-> "idle", isRunningBulk |-> FALSE, generatedCount |-> 0, total |-> 0,
   i |-> 0, requests |-> 0, data |-> None, caught |-> FALSE, toast |-> ""]

\* The page view before it is opened: no slug, no query data, no mutation
\* pending.  net is the request the view has sent and not got answered,
\* effect whether the effect on [page] is due, requests and succeeded count
\* the generate requests sent and answered with success.
VisitorIdle ==
  [slug |-> None, page |-> None, error |-> FALSE, net |-> "none",
   effect |-> FALSE, isPending |-> FALSE, requests |-> 0, succeeded |-> 0,
   sent |-> None]

Serving == boot.pc = "serving"

\* ------------------------------------------------------------- startup

\* A mutant of SeedCount: the count is not looked at, the seed always runs.
SeedCountAlways ==
  /\ boot.pc = "start"
  /\ boot' = [pc |-> "emojis", i |-> 0, log |-> "seeding"]
  /\ UNCHANGED <<emojis, pages, proc, calc, admin, visitor>>

\* seedDatabase, lines 185-189: the count check.
SeedCount ==
  /\ boot.pc = "start"
  /\ boot' = IF getEmojiCount(emojis) > 0
             THEN [pc |-> "serving", i |-> 0, log |-> "skipping seed"]
             ELSE [pc |-> "emojis", i |-> 0, log |-> "seeding"]
  /\ UNCHANGED <<emojis, pages, proc, calc, admin, visitor>>

\* seedDatabase, lines 195-198: one batch of emoji rows.
SeedEmojis ==
  /\ boot.pc = "emojis"
  /\ IF boot.i < Len(EMOJI_DATA)
     THEN /\ emojis' = createEmojis(emojis,
                 SubSeq(EMOJI_DATA, boot.i + 1,
                        IF boot.i + batchSize > Len(EMOJI_DATA)
                        THEN Len(EMOJI_DATA) ELSE boot.i + batchSize))
          /\ boot' = [boot EXCEPT !.i = @ + batchSize]
     ELSE /\ emojis' = emojis
          /\ boot' = [pc |-> "pages", i |-> 1, log |-> "seeded emojis"]
  /\ UNCHANGED <<pages, proc, calc, admin, visitor>>

\* seedDatabase, lines 203-210: one page stub; a failure of createPage is
\* caught and ignored.
SeedPage ==
  /\ boot.pc = "pages"
  /\ LET seoPages == generateSeoPages(TOP_KEYWORDS)
     IN  IF boot.i <= Len(seoPages)
         THEN /\ pages' = createPage(pages, seoPages[boot.i]).store
              /\ boot' = [boot EXCEPT !.i = @ + 1]
         ELSE /\ pages' = pages
              /\ boot' = [pc |-> "serving", i |-> 0, log |-> "created stubs"]
  /\ UNCHANGED <<emojis, proc, calc, admin, visitor>>

\* ------------------------------------------------------------ requests

Respond(status) == [NoResponse EXCEPT !.status = status]

\* A mutant of CopyRequest: the count is raised a second time before the
\* answer is sent.
CopyRequestTwice(c, id) ==
  /\ Serving
  /\ proc[c].pc = "idle"
  /\ \A i \in 1..Len(emojis) : emojis[i].id = id => emojis[i].copyCount < MaxCopies
  /\ LET r == incrementCopyCount(incrementCopyCount(emojis, id).store, id)
     IN  /\ emojis' = r.store
         /\ proc' = [proc EXCEPT ![c] =
                       [Idle EXCEPT !.pc = "done", !.kind = "copy", !.id = id,
                                    !.resp = [Respond(200) EXCEPT !.count = r.result]]]
  /\ UNCHANGED <<pages, boot, calc, admin, visitor>>

\* POST /api/emojis/:id/copy, lines 38-42.
CopyRequest(c, id) ==
  /\ Serving
  /\ proc[c].pc = "idle"
  /\ \A i \in 1..Len(emojis) : emojis[i].id = id => emojis[i].copyCount < MaxCopies
  /\ LET r == incrementCopyCount(emojis, id)
     IN  /\ emojis' = r.store
         /\ proc' = [proc EXCEPT ![c] =
                       [Idle EXCEPT !.pc = "done", !.kind = "copy", !.id = id,
                                    !.resp = [Respond(200) EXCEPT !.count = r.result]]]
  /\ UNCHANGED <<pages, boot, calc, admin, visitor>>

\* A mutant of PatchFields: the flag of the body is handed on as well.
PatchFieldsWithFlag(body) ==
  [NoFields EXCEPT !.title = body.title,
                   !.metaDescription = body.metaDescription,
                   !.content = body.content,
                   !.isGenerated = body.isGenerated]

\* A mutant of PatchFields: the whole body is handed to updatePage.
PatchFieldsWhole(body) == body

\* const { title, metaDescription, content } = req.body, lines 58 and 60:
\* the three fields the PATCH handler hands to updatePage.
PatchFields(body) ==
  [NoFields EXCEPT !.title = body.title,
                   !.metaDescription = body.metaDescription,
                   !.content = body.content]

\* PATCH /api/pages/:id, lines 56-67.
PatchRequest(c, id, body) ==
  /\ Serving
  /\ proc[c].pc = "idle"
  /\ LET r == updatePage(pages, id, PatchFields(body))
     IN  /\ pages' = r.store
         /\ proc' = [proc EXCEPT ![c] =
                       [Idle EXCEPT !.pc = "done", !.kind = "patch", !.id = id,
                                    !.resp =
                                      IF IsSome(r.result)
                                      THEN [Respond(200) EXCEPT !.page = r.result]
                                      ELSE [Respond(404) EXCEPT !.message = "Page not found"]]]
  /\ UNCHANGED <<emojis, boot, calc, admin, visitor>>

\* A mutant of ShortCircuit: the test of the flag is inverted.
ShortCircuitInverted(existingPage) ==
  IsSome(existingPage) /\ ~existingPage[1].isGenerated

\* if (existingPage && existingPage.isGenerated), line 78.
ShortCircuit(existingPage) == IsSome(existingPage) /\ existingPage[1].isGenerated

\* A mutant of KeywordMissing: only an absent keyword is refused.
KeywordUndefinedOnly(keyword) == ~IsSome(keyword)

\* if (!keyword), line 71: an absent keyword and the empty string are falsy.
KeywordMissing(keyword) == ~IsSome(keyword) \/ keyword[1] = <<>>

\* POST /api/pages/generate, lines 69-80: the keyword check, the lookup by
\* slug and the early return.
GenerateLookup(c, keyword) ==
  /\ Serving
  /\ proc[c].pc = "idle"
  /\ IF KeywordMissing(keyword)
     THEN proc' = [proc EXCEPT ![c] =
                     [Idle EXCEPT !.pc = "done", !.kind = "generate",
                                  !.keyword = keyword,
                                  !.resp = [Respond(400) EXCEPT !.message = "Keyword is required"]]]
     ELSE LET existingPage == getPageBySlug(pages, Slugify(keyword[1]))
          IN  IF ShortCircuit(existingPage)
              THEN proc' = [proc EXCEPT ![c] =
                              [Idle EXCEPT !.pc = "done", !.kind = "generate",
                                           !.keyword = keyword,
                                           !.existingPage = existingPage,
                                           !.resp = [Respond(200) EXCEPT !.page = existingPage]]]
              ELSE proc' = [proc EXCEPT ![c] =
                              [Idle EXCEPT !.pc = "gen_emojis", !.kind = "generate",
                                           !.keyword = keyword,
                                           !.existingPage = existingPage]]
  /\ UNCHANGED <<emojis, pages, boot, calc, admin, visitor>>

\* POST /api/pages/generate, line 82: the catalog search.
GenerateEmojis(c) ==
  /\ proc[c].pc = "gen_emojis"
  /\ LET search == CleanKeyword(proc[c].keyword[1])
     IN  proc' = [proc EXCEPT ![c].pc = "gen_write",
                              ![c].search = Some(search),
                              ![c].allEmojis = getEmojis(emojis, search)]
  /\ UNCHANGED <<emojis, pages, boot, calc, admin, visitor>>

\* A mutant of GeneratedFields: the requested keyword is stored as well.
GeneratedFieldsWithKeyword(keyword, allEmojis) ==
  [NoFields EXCEPT !.keyword = Some(keyword),
                   !.content = Some(generateSeoContent(keyword, allEmojis)),
                   !.relatedEmojis = Some(RelatedEmojiChars(allEmojis)),
                   !.isGenerated = Some(TRUE)]

\* A mutant of GeneratedFields: the title is rewritten from the keyword too.
GeneratedFieldsWithTitle(keyword, allEmojis) ==
  [NoFields EXCEPT !.title = Some(PageTitle(keyword)),
                   !.content = Some(generateSeoContent(keyword, allEmojis)),
                   !.relatedEmojis = Some(RelatedEmojiChars(allEmojis)),
                   !.isGenerated = Some(TRUE)]

\* The fields generate and generate-batch write to a page, lines 88-92 and
\* 123-127.
GeneratedFields(keyword, allEmojis) ==
  [NoFields EXCEPT !.content = Some(generateSeoContent(keyword, allEmojis)),
                   !.relatedEmojis = Some(RelatedEmojiChars(allEmojis)),
                   !.isGenerated = Some(TRUE)]

\* The row generate creates for a keyword with no page, lines 96-104.
NewPage(keyword, allEmojis) ==
  [slug |-> CreateSlug(keyword),
   title |-> PageTitle(keyword),
   keyword |-> keyword,
   metaDescription |-> PageMeta(keyword),
   content |-> Some(generateSeoContent(keyword, allEmojis)),
   relatedEmojis |-> Some(RelatedEmojiChars(allEmojis)),
   isGenerated |-> TRUE]

\* A mutant of GenerateWrite: a createPage that returns no row is taken for a
\* failure and answered 500.
GenerateWriteNoRowFails(c) ==
  /\ proc[c].pc = "gen_write"
  /\ LET keyword == proc[c].keyword[1]
         existingPage == proc[c].existingPage
     IN  IF IsSome(existingPage)
         THEN LET r == updatePage(pages, existingPage[1].id,
                                  GeneratedFields(keyword, proc[c].allEmojis))
              IN  /\ pages' = r.store
                  /\ proc' = [proc EXCEPT ![c].pc = "done",
                                          ![c].wrote = IF IsSome(r.result)
                                                       THEN {existingPage[1].id} ELSE {},
                                          ![c].resp = [Respond(200) EXCEPT !.page = r.result]]
         ELSE LET r == createPage(pages, NewPage(keyword, proc[c].allEmojis))
              IN  /\ pages' = r.store
                  /\ proc' = [proc EXCEPT ![c].pc = "done",
                                          ![c].resp =
                                            IF IsSome(r.result)
                                            THEN [Respond(201) EXCEPT !.page = r.result]
                                            ELSE [Respond(500) EXCEPT
                                                    !.message = "Failed to generate page"]]
  /\ UNCHANGED <<emojis, boot, calc, admin, visitor>>

\* POST /api/pages/generate, lines 87-106: the stub is updated, or a page is
\* created.
GenerateWrite(c) ==
  /\ proc[c].pc = "gen_write"
  /\ LET keyword == proc[c].keyword[1]
         existingPage == proc[c].existingPage
     IN  IF IsSome(existingPage)
         THEN LET r == updatePage(pages, existingPage[1].id,
                                  GeneratedFields(keyword, proc[c].allEmojis))
              IN  /\ pages' = r.store
                  /\ proc' = [proc EXCEPT ![c].pc = "done",
                                          ![c].wrote = IF IsSome(r.result)
                                                       THEN {existingPage[1].id} ELSE {},
                                          ![c].resp = [Respond(200) EXCEPT !.page = r.result]]
         ELSE LET r == createPage(pages, NewPage(keyword, proc[c].allEmojis))
              IN  /\ pages' = r.store
                  /\ proc' = [proc EXCEPT ![c].pc = "done",
                                          ![c].resp = [Respond(201) EXCEPT !.page = r.result]]
  /\ UNCHANGED <<emojis, boot, calc, admin, visitor>>

\* A mutant of BatchStart: the selection is not limited.
BatchStartNoLimit(c) ==
  /\ Serving
  /\ proc[c].pc = "idle"
  /\ LET ungenerated == getUngeneratedPages(pages, Len(pages))
     IN  proc' = [proc EXCEPT ![c] =
                    IF ungenerated = <<>>
                    THEN [Idle EXCEPT !.pc = "done", !.kind = "batch",
                                      !.resp = [Respond(200) EXCEPT !.count = Some(0)]]
                    ELSE [Idle EXCEPT !.pc = "batch_emojis", !.kind = "batch",
                                      !.ungenerated = ungenerated, !.i = 1]]
  /\ UNCHANGED <<emojis, pages, boot, calc, admin, visitor>>

\* POST /api/pages/generate-batch, lines 113-118 and 131: the selection of up
\* to 5 ungenerated pages; with none selected the response follows at once.
BatchStart(c) ==
  /\ Serving
  /\ proc[c].pc = "idle"
  /\ LET ungenerated == getUngeneratedPages(pages, BatchLimit)
     IN  proc' = [proc EXCEPT ![c] =
                    IF ungenerated = <<>>
                    THEN [Idle EXCEPT !.pc = "done", !.kind = "batch",
                                      !.resp = [Respond(200) EXCEPT !.count = Some(0)]]
                    ELSE [Idle EXCEPT !.pc = "batch_emojis", !.kind = "batch",
                                      !.ungenerated = ungenerated, !.i = 1]]
  /\ UNCHANGED <<emojis, pages, boot, calc, admin, visitor>>

\* A mutant of BatchEmojis: the catalog is searched with the whole keyword.
BatchEmojisRawKeyword(c) ==
  /\ proc[c].pc = "batch_emojis"
  /\ LET page == proc[c].ungenerated[proc[c].i]
         search == page.keyword
     IN  proc' = [proc EXCEPT ![c].pc = "batch_write",
                              ![c].search = Some(search),
                              ![c].allEmojis = getEmojis(emojis, search)]
  /\ UNCHANGED <<emojis, pages, boot, calc, admin, visitor>>

\* POST /api/pages/generate-batch, line 119: the catalog search for the
\* page the loop stands at.
BatchEmojis(c) ==
  /\ proc[c].pc = "batch_emojis"
  /\ LET page == proc[c].ungenerated[proc[c].i]
         search == CleanKeyword(page.keyword)
     IN  proc' = [proc EXCEPT ![c].pc = "batch_write",
                              ![c].search = Some(search),
                              ![c].allEmojis = getEmojis(emojis, search)]
  /\ UNCHANGED <<emojis, pages, boot, calc, admin, visitor>>

\* A mutant of BatchWrite: a page that is generated by now is skipped, neither
\* written nor counted.
BatchWriteSkipGenerated(c) ==
  /\ proc[c].pc = "batch_write"
  /\ LET page == proc[c].ungenerated[proc[c].i]
         skip == \E i \in 1..Len(pages) : pages[i].id = page.id /\ pages[i].isGenerated
         r == IF skip THEN [store |-> pages, result |-> None]
              ELSE updatePage(pages, page.id,
                              GeneratedFields(page.keyword, proc[c].allEmojis))
         generated == IF skip THEN proc[c].generated ELSE proc[c].generated + 1
     IN  /\ pages' = r.store
         /\ proc' = [proc EXCEPT
                       ![c].generated = generated,
                       ![c].wrote = IF IsSome(r.result) THEN @ \cup {page.id} ELSE @,
                       ![c].i = @ + 1,
                       ![c].allEmojis = <<>>,
                       ![c].search = None,
                       ![c].pc = IF proc[c].i < Len(proc[c].ungenerated)
                                 THEN "batch_emojis" ELSE "done",
                       ![c].resp = IF proc[c].i < Len(proc[c].ungenerated)
                                   THEN NoResponse
                                   ELSE [Respond(200) EXCEPT !.count = Some(generated)]]
  /\ UNCHANGED <<emojis, boot, calc, admin, visitor>>

\* POST /api/pages/generate-batch, lines 121-131: the page is written and
\* counted; after the last page the count is sent.
BatchWrite(c) ==
  /\ proc[c].pc = "batch_write"
  /\ LET page == proc[c].ungenerated[proc[c].i]
         r == updatePage(pages, page.id,
                         GeneratedFields(page.keyword, proc[c].allEmojis))
         generated == proc[c].generated + 1
     IN  /\ pages' = r.store
         /\ proc' = [proc EXCEPT
                       ![c].generated = generated,
                       ![c].wrote = IF IsSome(r.result) THEN @ \cup {page.id} ELSE @,
                       ![c].i = @ + 1,
                       ![c].allEmojis = <<>>,
                       ![c].search = None,
                       ![c].pc = IF proc[c].i < Len(proc[c].ungenerated)
                                 THEN "batch_emojis" ELSE "done",
                       ![c].resp = IF proc[c].i < Len(proc[c].ungenerated)
                                   THEN NoResponse
                                   ELSE [Respond(200) EXCEPT !.count = Some(generated)]]
  /\ UNCHANGED <<emojis, boot, calc, admin, visitor>>

\* The client takes the response; it may send its next request.
Receive(c) ==
  /\ proc[c].pc = "done"
  /\ proc' = [proc EXCEPT ![c] = Idle]
  /\ UNCHANGED <<emojis, pages, boot, calc, admin, visitor>>

\* ------------------------------------------------------- read handlers

\* A read request that answers 200 with a list of rows.
AnswerRows(c, kind, rows) ==
  /\ Serving
  /\ proc[c].pc = "idle"
  /\ proc' = [proc EXCEPT ![c] =
                [Idle EXCEPT !.pc = "done", !.kind = kind,
                             !.resp = [Respond(200) EXCEPT !.rows = Some(rows)]]]
  /\ UNCHANGED <<emojis, pages, boot, calc, admin, visitor>>

\* GET /api/emojis/categories, lines 15-18.
GetCategories(c) == AnswerRows(c, "categories", getCategories(emojis))

\* GET /api/emojis/trending, lines 20-23.
GetTrending(c) == AnswerRows(c, "trending", getTrending(emojis, TrendingLimit))

\* GET /api/emojis, lines 25-30.
GetEmojis(c, search, category) ==
  AnswerRows(c, "emojis", listEmojis(emojis, search, category))

\* GET /api/pages, lines 45-48.
GetPages(c) == AnswerRows(c, "pages", getPages(pages))

\* A mutant of GetEmojiBySlug: a view of an emoji is counted as a copy.
GetEmojiBySlugCounts(c, slug) ==
  /\ Serving
  /\ proc[c].pc = "idle"
  /\ LET emoji == getEmojiBySlug(emojis, slug)
     IN  /\ emojis' = IF IsSome(emoji) /\ emoji[1].copyCount < MaxCopies
                      THEN incrementCopyCount(emojis, emoji[1].id).store
                      ELSE emojis
         /\ proc' = [proc EXCEPT ![c] =
                       [Idle EXCEPT !.pc = "done", !.kind = "emoji", !.slug = Some(slug),
                                    !.resp =
                                      IF IsSome(emoji)
                                      THEN [Respond(200) EXCEPT !.emoji = emoji]
                                      ELSE [Respond(404) EXCEPT !.message = "Emoji not found"]]]
  /\ UNCHANGED <<pages, boot, calc, admin, visitor>>

\* GET /api/emojis/:slug, lines 32-36.
GetEmojiBySlug(c, slug) ==
  /\ Serving
  /\ proc[c].pc = "idle"
  /\ LET emoji == getEmojiBySlug(emojis, slug)
     IN  proc' = [proc EXCEPT ![c] =
                   [Idle EXCEPT !.pc = "done", !.kind = "emoji", !.slug = Some(slug),
                                !.resp =
                                  IF IsSome(emoji)
                                  THEN [Respond(200) EXCEPT !.emoji = emoji]
                                  ELSE [Respond(404) EXCEPT !.message = "Emoji not found"]]]
  /\ UNCHANGED <<emojis, pages, boot, calc, admin, visitor>>

\* A mutant of GetPageBySlug: the missing page is not told apart, the answer
\* is 200 whatever the lookup returned.
GetPageBySlugNo404(c, slug) ==
  /\ Serving
  /\ proc[c].pc = "idle"
  /\ LET page == getPageBySlug(pages, slug)
     IN  proc' = [proc EXCEPT ![c] =
                   [Idle EXCEPT !.pc = "done", !.kind = "page", !.slug = Some(slug),
                                !.resp = [Respond(200) EXCEPT !.page = page]]]
  /\ UNCHANGED <<emojis, pages, boot, calc, admin, visitor>>

\* GET /api/pages/:slug, lines 50-54.
GetPageBySlug(c, slug) ==
  /\ Serving
  /\ proc[c].pc = "idle"
  /\ LET page == getPageBySlug(pages, slug)
     IN  proc' = [proc EXCEPT ![c] =
                   [Idle EXCEPT !.pc = "done", !.kind = "page", !.slug = Some(slug),
                                !.resp =
                                  IF IsSome(page)
                                  THEN [Respond(200) EXCEPT !.page = page]
                                  ELSE [Respond(404) EXCEPT !.message = "Page not found"]]]
  /\ UNCHANGED <<emojis, pages, boot, calc, admin, visitor>>

\* ------------------------------------------------------ store failures

\* The handlers of lines 15-54: their store call is awaited outside any
\* try/catch.
UncaughtKinds == {"categories", "trending", "emojis", "emoji", "copy", "pages", "page"}

\* What becomes of a request whose handler rejects with nobody catching:
\* nothing is ever sent; the process ends on the unhandled rejection; or the
\* framework hands the error to its error middleware, which sends a 500.
UncaughtOutcomes == {"hang", "exit", "middleware"}

\* The store call of a handler of lines 15-54 rejects.
UncaughtFailure(c, kind, outcome) ==
  /\ Serving
  /\ proc[c].pc = "idle"
  /\ proc' =
       IF outcome = "exit"
       THEN [d \in Clients |->
               IF d = c THEN [Idle EXCEPT !.pc = "dropped", !.kind = kind, !.failed = TRUE]
               ELSE IF proc[d].pc = "idle" THEN Idle
               ELSE [Idle EXCEPT !.pc = "dropped", !.kind = proc[d].kind]]
       ELSE [proc EXCEPT ![c] =
               IF outcome = "hang"
               THEN [Idle EXCEPT !.pc = "hung", !.kind = kind, !.failed = TRUE]
               ELSE [Idle EXCEPT !.pc = "done", !.kind = kind, !.failed = TRUE,
                                 !.resp = [Respond(500) EXCEPT
                                             !.message = "Internal Server Error"]]]
  /\ boot' = IF outcome = "exit" THEN [pc |-> "start", i |-> 0, log |-> ""] ELSE boot
  /\ UNCHANGED <<emojis, pages, calc, admin, visitor>>

\* The answer of a catch block, lines 63-66, 107-110 and 132-135.
Caught(c, kind, message) ==
  proc' = [proc EXCEPT ![c] =
             [proc[c] EXCEPT !.pc = "done", !.kind = kind, !.failed = TRUE,
                             !.resp = [Respond(500) EXCEPT !.message = message]]]

\* PATCH /api/pages/:id, lines 60 and 63-66: updatePage rejects.
PatchFails(c, id) ==
  /\ Serving
  /\ proc[c].pc = "idle"
  /\ proc' = [proc EXCEPT ![c] =
                [Idle EXCEPT !.pc = "done", !.kind = "patch", !.id = id, !.failed = TRUE,
                             !.resp = [Respond(500) EXCEPT
                                         !.message = "Failed to update page"]]]
  /\ UNCHANGED <<emojis, pages, boot, calc, admin, visitor>>

\* POST /api/pages/generate, lines 77 and 107-110: getPageBySlug rejects.
GenerateLookupFails(c, keyword) ==
  /\ Serving
  /\ proc[c].pc = "idle"
  /\ ~KeywordMissing(keyword)
  /\ proc' = [proc EXCEPT ![c] =
                [Idle EXCEPT !.pc = "done", !.kind = "generate", !.keyword = keyword,
                             !.failed = TRUE,
                             !.resp = [Respond(500) EXCEPT
                                         !.message = "Failed to generate page"]]]
  /\ UNCHANGED <<emojis, pages, boot, calc, admin, visitor>>

\* POST /api/pages/generate, lines 82-110: getEmojis, updatePage or
\* createPage rejects.
GenerateFails(c) ==
  /\ proc[c].pc \in {"gen_emojis", "gen_write"}
  /\ Caught(c, "generate", "Failed to generate page")
  /\ UNCHANGED <<emojis, pages, boot, calc, admin, visitor>>

\* A mutant of BatchFails: the 500 tells how many pages were generated.
BatchFailsWithCount(c) ==
  /\ \/ Serving /\ proc[c].pc = "idle"
     \/ proc[c].pc \in {"batch_emojis", "batch_write"}
  /\ proc' = [proc EXCEPT ![c] =
                [proc[c] EXCEPT !.pc = "done", !.kind = "batch", !.failed = TRUE,
                                !.resp = [Respond(500) EXCEPT
                                            !.message = "Failed to batch generate",
                                            !.count = Some(proc[c].generated)]]]
  /\ UNCHANGED <<emojis, pages, boot, calc, admin, visitor>>

\* POST /api/pages/generate-batch, lines 115-135: getUngeneratedPages,
\* getEmojis or updatePage rejects; what the loop wrote before stays.
BatchFails(c) ==
  /\ \/ Serving /\ proc[c].pc = "idle"
     \/ proc[c].pc \in {"batch_emojis", "batch_write"}
  /\ Caught(c, "batch", "Failed to batch generate")
  /\ UNCHANGED <<emojis, pages, boot, calc, admin, visitor>>

\* The client of a request the server dropped sees the connection fail.
ReceiveDropped(c) ==
  /\ proc[c].pc = "dropped"
  /\ proc' = [proc EXCEPT ![c] = Idle]
  /\ UNCHANGED <<emojis, pages, boot, calc, admin, visitor>>

\* The process is stopped, at any point of startup or service, and started
\* again: registerRoutes runs anew against the database as it is.
Restart ==
  /\ boot' = [pc |-> "start", i |-> 0, log |-> ""]
  /\ proc' = [c \in Clients |-> Idle]
  /\ UNCHANGED <<emojis, pages, calc, admin, visitor>>

\* ----------------------------------------------------------- page view

\* SeoPage, the content section when no generation is pending: the article
\* is rendered when page.content is truthy, else the placeholder 'Content
\* will be generated shortly.'; null and the empty string are falsy.
ShowsPlaceholder(page) == ~IsSome(page.content) \/ page.content[1] = <<>>

\* SeoPage, lines 15-28: the view is opened on a slug; the page query is
\* enabled for a non-empty slug and fetches /api/pages/:slug.
VisitOpen(slug) ==
  /\ visitor.slug = None
  /\ visitor' = [visitor EXCEPT !.slug = Some(slug),
                                !.net = IF slug # <<>> THEN "fetch" ELSE "none"]
  /\ UNCHANGED <<emojis, pages, boot, proc, calc, admin>>

\* The server takes the fetch of the page query, line 23.
VisitServeFetch(c) ==
  /\ visitor.net = "fetch"
  /\ GetPageBySlug(c, visitor.slug[1])

\* The server takes the generate request of the mutation, line 36.
VisitServeGenerate(c) ==
  /\ visitor.net = "generate"
  /\ GenerateLookup(c, visitor.sent)

\* The server takes the generate request and its lookup fails.
VisitServeGenerateFails(c) ==
  /\ visitor.net = "generate"
  /\ GenerateLookupFails(c, visitor.sent)

\* SeoPage, lines 20-42, an answer arrives.  To the page query: a 200 gives
\* the query its data, and the effect on [page] is due when the data differs
\* from what the query held; another status makes queryFn throw.  To the
\* mutation: it is no longer pending, and on success (apiRequest throws on
\* another status) onSuccess refetches the page.
VisitReceive(c) ==
  /\ visitor.net # "none"
  /\ proc[c].pc = "done"
  /\ visitor' =
       IF proc[c].kind = "page"
       THEN IF proc[c].resp.status = 200
            THEN [visitor EXCEPT !.page = proc[c].resp.page, !.error = FALSE,
                                 !.net = "none",
                                 !.effect = @ \/ proc[c].resp.page # visitor.page]
            ELSE [visitor EXCEPT !.error = TRUE, !.net = "none"]
       ELSE IF proc[c].resp.status \in {200, 201}
            THEN [visitor EXCEPT !.isPending = FALSE, !.succeeded = @ + 1,
                                 !.net = "fetch"]
            ELSE [visitor EXCEPT !.isPending = FALSE, !.net = "none"]
  /\ proc' = [proc EXCEPT ![c] = Idle]
  /\ UNCHANGED <<emojis, pages, boot, calc, admin>>

\* A mutant of VisitEffect: the flag of the page is not looked at.
VisitEffectAlways ==
  /\ visitor.effect
  /\ visitor' =
       IF IsSome(visitor.page) /\ ~visitor.isPending
       THEN [visitor EXCEPT !.effect = FALSE, !.isPending = TRUE,
                            !.net = "generate", !.requests = @ + 1,
                            !.sent = Some(visitor.page[1].keyword)]
       ELSE [visitor EXCEPT !.effect = FALSE]
  /\ UNCHANGED <<emojis, pages, boot, proc, calc, admin>>

\* SeoPage, lines 44-48: the effect on [page].
VisitEffect ==
  /\ visitor.effect
  /\ visitor' =
       IF /\ IsSome(visitor.page)
          /\ ~visitor.page[1].isGenerated
          /\ ~visitor.isPending
       THEN [visitor EXCEPT !.effect = FALSE, !.isPending = TRUE,
                            !.net = "generate", !.requests = @ + 1,
                            !.sent = Some(visitor.page[1].keyword)]
       ELSE [visitor EXCEPT !.effect = FALSE]
  /\ UNCHANGED <<emojis, pages, boot, proc, calc, admin>>

\* ---------------------------------------------------------- admin page

\* const maxRounds = 100, Admin.tsx line 57.
maxRounds == 100

\* handleBulkGenerate, lines 54-57: the button is enabled only while no bulk
\* action runs (line 217).
BulkStart ==
  /\ admin.pc \in {"idle", "finished"}
  /\ ~admin.isRunningBulk
  /\ admin' = [AdminIdle EXCEPT !.pc = "loop", !.isRunningBulk = TRUE]
  /\ UNCHANGED <<emojis, pages, boot, proc, calc, visitor>>

\* handleBulkGenerate, lines 59-61: the loop test and the request.
BulkSend ==
  /\ admin.pc = "loop"
  /\ admin' = IF admin.i < maxRounds
              THEN [admin EXCEPT !.pc = "await", !.requests = @ + 1]
              ELSE [admin EXCEPT !.pc = "exit"]
  /\ UNCHANGED <<emojis, pages, boot, proc, calc, visitor>>

\* A mutant of AfterResponse: the total counts the rounds, not the pages.
AfterResponseCountsRounds(outcome) ==
  IF ~IsSome(outcome)
  THEN [admin EXCEPT !.pc = "exit", !.data = None, !.caught = TRUE,
                     !.toast = "Batch generation error"]
  ELSE IF outcome[1] = 0
  THEN [admin EXCEPT !.pc = "exit", !.data = outcome]
  ELSE [admin EXCEPT !.pc = "loop", !.data = outcome,
                     !.total = @ + 1,
                     !.generatedCount = admin.total + 1,
                     !.i = @ + 1]

\* handleBulkGenerate, lines 61-70, the admin page after the awaited request
\* is settled: it failed (no outcome) and the catch block ends the loop, or
\* it answered { generated } and the loop ends on 0 and goes on otherwise.
AfterResponse(outcome) ==
  IF ~IsSome(outcome)
  THEN [admin EXCEPT !.pc = "exit", !.data = None, !.caught = TRUE,
                     !.toast = "Batch generation error"]
  ELSE IF outcome[1] = 0
  THEN [admin EXCEPT !.pc = "exit", !.data = outcome]
  ELSE [admin EXCEPT !.pc = "loop", !.data = outcome,
                     !.total = @ + outcome[1],
                     !.generatedCount = admin.total + outcome[1],
                     !.i = @ + 1]

\* A mutant of BulkResponse: a response with generated = 0 does not end the
\* loop.
BulkResponseNoBreak(outcome) ==
  /\ admin.pc = "await"
  /\ admin' = IF ~IsSome(outcome)
              THEN [admin EXCEPT !.pc = "exit", !.data = None, !.caught = TRUE,
                                 !.toast = "Batch generation error"]
              ELSE [admin EXCEPT !.pc = "loop", !.data = outcome,
                                 !.total = @ + outcome[1],
                                 !.generatedCount = admin.total + outcome[1],
                                 !.i = @ + 1]
  /\ UNCHANGED <<emojis, pages, boot, proc, calc, visitor>>

\* handleBulkGenerate, lines 61-70: the awaited request is settled, with an
\* outcome the server is not asked for.
BulkResponse(outcome) ==
  /\ admin.pc = "await"
  /\ admin' = AfterResponse(outcome)
  /\ UNCHANGED <<emojis, pages, boot, proc, calc, visitor>>

\* Admin.tsx line 217: the button is disabled while no page of the list is
\* ungenerated.
BulkPress ==
  /\ \E i \in 1..Len(pages) : ~pages[i].isGenerated
  /\ BulkStart

\* The server takes the generate-batch request the admin page awaits.
BulkServe(c) ==
  /\ admin.pc = "await"
  /\ BatchStart(c)

\* handleBulkGenerate, lines 61-70: the server's answer arrives; a status
\* other than 200 makes apiRequest throw.
BulkReceive(c) ==
  /\ admin.pc = "await"
  /\ proc[c].pc = "done"
  /\ admin' = AfterResponse(IF proc[c].resp.status = 200
                            THEN proc[c].resp.count ELSE None)
  /\ proc' = [proc EXCEPT ![c] = Idle]
  /\ UNCHANGED <<emojis, pages, boot, calc, visitor>>

\* handleBulkGenerate, lines 73-75: after the loop.
BulkExit ==
  /\ admin.pc = "exit"
  /\ admin' = [admin EXCEPT !.pc = "finished", !.isRunningBulk = FALSE,
                            !.toast = "Generated content"]
  /\ UNCHANGED <<emojis, pages, boot, proc, calc, visitor>>

\* What a generate-batch request may come to: a failure, or a response with
\* generated = 0, 1 or the batch limit.
BulkOutcomes == {None, Some(0), Some(1), Some(BatchLimit)}

\* ------------------------------------------------------ slug calculator

\* The characters keywords are drawn from: a lower-case and an upper-case
\* letter, a digit, a space, the separator and a punctuation mark.
Alphabet == {"a", "B", "1", " ", "-", "!"}

KeywordsUpTo(n) == UNION {[1..m -> Alphabet] : m \in 0..n}

\* The two slugs generate derives from one keyword.
CalcSlugs ==
  /\ boot.pc = "calc"
  /\ calc.lookup = None
  /\ calc' = [calc EXCEPT !.lookup = Some(Slugify(calc.keyword[1])),
                          !.stored = Some(CreateSlug(calc.keyword[1]))]
  /\ UNCHANGED <<emojis, pages, boot, proc, admin, visitor>>

\* The slug is used as a keyword: it is normalized again.
CalcAgain ==
  /\ boot.pc = "calc"
  /\ calc.lookup # None
  /\ calc.again = None
  /\ calc' = [calc EXCEPT !.again = Some(Slugify(calc.lookup[1]))]
  /\ UNCHANGED <<emojis, pages, boot, proc, admin, visitor>>

\* ------------------------------------------------------------- inputs


\* The keywords sent to generate: a stub's keyword; another spelling of it,
\* which holds no ' emoji'; a new keyword with ' emoji' in the middle; an
\* empty and a missing keyword.
GenerateKeywords ==
  { Some(StrCat \o StrEmoji),
    Some(<<"C", "a", "t", " ", " ", "E", "m", "o", "j", "i", "!">>),
    Some(<<"C", "a", "t">> \o StrEmoji \o <<" ", " ", "a", "r", "t", "!">>),
    Some(<<>>),
    None }

\* The ids sent to copy: an emoji and an id no emoji has.
CopyIds == {2, 0}

\* The ids sent to PATCH: a page and an id no page has.
PatchIds == {1, 0}

\* The bodies sent to PATCH: an edit of the three editable fields, and a body
\* that names other columns too.
PatchBodies ==
  { [NoFields EXCEPT !.title = Some(<<"t">>), !.metaDescription = Some(<<"m">>),
                     !.content = Some(<<"x">>)],
    [NoFields EXCEPT !.content = Some(<<>>), !.slug = Some(<<"z">>),
                     !.isGenerated = Some(FALSE)] }

\* ----------------------------------------------------- specifications

\* The server starts against an empty database.
Init ==
  /\ emojis = <<>>
  /\ pages = <<>>
  /\ boot = [pc |-> "start", i |-> 0, log |-> ""]
  /\ proc = [c \in Clients |-> Idle]
  /\ calc = NoCalc
  /\ admin = AdminIdle
  /\ visitor = VisitorIdle

Next ==
  \/ SeedCount
  \/ SeedEmojis
  \/ SeedPage
  \/ \E c \in Clients, id \in CopyIds : CopyRequest(c, id)
  \/ \E c \in Clients, id \in PatchIds, body \in PatchBodies : PatchRequest(c, id, body)
  \/ \E c \in Clients, keyword \in GenerateKeywords : GenerateLookup(c, keyword)
  \/ \E c \in Clients : GenerateEmojis(c)
  \/ \E c \in Clients : GenerateWrite(c)
  \/ \E c \in Clients : BatchStart(c)
  \/ \E c \in Clients : BatchEmojis(c)
  \/ \E c \in Clients : BatchWrite(c)
  \/ \E c \in Clients : Receive(c)

Spec == Init /\ [][Next]_vars

\* The keywords of the stubs of the batch database: cat1 emoji, cat2 emoji, ...
BatchKeywords(n) == [i \in 1..n |-> StrCat \o <<ToString(i)>> \o StrEmoji]

\* The page store after createPage of every row of rows, in order.
RECURSIVE CreateAll(_, _)
CreateAll(ps, rows) ==
  IF rows = <<>> THEN ps
  ELSE CreateAll(createPage(ps, Head(rows)).store, Tail(rows))

\* The server has started against a database that holds the catalog and
\* StubsBatch ungenerated stubs.
InitBatch ==
  /\ emojis = createEmojis(<<>>, EMOJI_DATA)
  /\ pages = CreateAll(<<>>, generateSeoPages(BatchKeywords(StubsBatch)))
  /\ boot = [pc |-> "serving", i |-> 0, log |-> "skipping seed"]
  /\ proc = [c \in Clients |-> Idle]
  /\ calc = NoCalc
  /\ admin = AdminIdle
  /\ visitor = VisitorIdle

NextBatch ==
  \/ \E c \in Clients : BatchStart(c)
  \/ \E c \in Clients : BatchEmojis(c)
  \/ \E c \in Clients : BatchWrite(c)
  \/ \E c \in Clients : Receive(c)

SpecBatch == InitBatch /\ [][NextBatch]_vars

\* The client of the operations specification: its requests follow one
\* another.
OpsClients == {"c1"}

\* The keywords it sends to generate: a stub's keyword, a keyword of
\* punctuation only, and none.
OpsKeywords == {Some(StrCat \o StrEmoji), Some(<<"!", "!">>), None}

\* The emoji slugs it asks for: the slug of row 2 and a slug no row has.
EmojiSlugs == {StrCat \o <<"-", "2">>, <<"n", "o">>}

\* The page slugs it asks for: the slug of a stub and a slug no page has.
PageSlugs == {<<"c", "a", "t", "-", "e", "m", "o", "j", "i">>, <<"n", "o">>}

\* The filters it lists the catalog with.
ListSearches == {None, Some(StrDog)}
ListCategories == {None, Some("pets")}

\* Every handler, with store failures, and stops and restarts of the
\* process at any point.
NextOps ==
  \/ SeedCount
  \/ SeedEmojis
  \/ SeedPage
  \/ Restart
  \/ \E c \in OpsClients : GetCategories(c)
  \/ \E c \in OpsClients : GetTrending(c)
  \/ \E c \in OpsClients, search \in ListSearches, category \in ListCategories :
        GetEmojis(c, search, category)
  \/ \E c \in OpsClients, slug \in EmojiSlugs : GetEmojiBySlug(c, slug)
  \/ \E c \in OpsClients, id \in CopyIds : CopyRequest(c, id)
  \/ \E c \in OpsClients : GetPages(c)
  \/ \E c \in OpsClients, slug \in PageSlugs : GetPageBySlug(c, slug)
  \/ \E c \in OpsClients, id \in PatchIds, body \in PatchBodies : PatchRequest(c, id, body)
  \/ \E c \in OpsClients, keyword \in OpsKeywords : GenerateLookup(c, keyword)
  \/ \E c \in OpsClients : GenerateEmojis(c)
  \/ \E c \in OpsClients : GenerateWrite(c)
  \/ \E c \in OpsClients : BatchStart(c)
  \/ \E c \in OpsClients : BatchEmojis(c)
  \/ \E c \in OpsClients : BatchWrite(c)
  \/ \E c \in OpsClients, kind \in UncaughtKinds, outcome \in UncaughtOutcomes :
        UncaughtFailure(c, kind, outcome)
  \/ \E c \in OpsClients, id \in PatchIds : PatchFails(c, id)
  \/ \E c \in OpsClients, keyword \in OpsKeywords : GenerateLookupFails(c, keyword)
  \/ \E c \in OpsClients : GenerateFails(c)
  \/ \E c \in OpsClients : BatchFails(c)
  \/ \E c \in OpsClients : Receive(c)
  \/ \E c \in OpsClients : ReceiveDropped(c)

SpecOps == Init /\ [][NextOps]_vars

\* The keywords of overlapping generate calls: a new keyword, another keyword
\* with the same slug, and the keyword of a stub.
RaceKeywords ==
  { Some(<<"C", "a", "t">> \o StrEmoji \o <<" ", " ", "a", "r", "t", "!">>),
    Some(<<"c", "a", "t", "-", "e", "m", "o", "j", "i", "-", "a", "r", "t">>),
    Some(StrDog \o StrEmoji) }

\* Startup against an empty database, then generate calls of two clients and
\* edits of a page, interleaved at every await.
NextRace ==
  \/ SeedCount
  \/ SeedEmojis
  \/ SeedPage
  \/ \E c \in Clients, keyword \in RaceKeywords : GenerateLookup(c, keyword)
  \/ \E c \in Clients : GenerateEmojis(c)
  \/ \E c \in Clients : GenerateWrite(c)
  \/ \E c \in Clients, body \in PatchBodies : PatchRequest(c, 1, body)
  \/ \E c \in Clients : Receive(c)

SpecRace == Init /\ [][NextRace]_vars

\* The batch handler of one client against the batch database, with store
\* failures at any of its awaits, and copies in between.
NextBatchFail ==
  \/ \E c \in OpsClients : BatchStart(c)
  \/ \E c \in OpsClients : BatchEmojis(c)
  \/ \E c \in OpsClients : BatchWrite(c)
  \/ \E c \in OpsClients : BatchFails(c)
  \/ \E c \in OpsClients, id \in CopyIds : CopyRequest(c, id)
  \/ \E c \in OpsClients : Receive(c)

SpecBatchFail == InitBatch /\ [][NextBatchFail]_vars

\* The server has started against the seeded database: the catalog and the
\* stubs of the fixed keyword list, none generated.
InitSeeded ==
  /\ emojis = createEmojis(<<>>, EMOJI_DATA)
  /\ pages = CreateAll(<<>>, generateSeoPages(TOP_KEYWORDS))
  /\ boot = [pc |-> "serving", i |-> 0, log |-> "skipping seed"]
  /\ proc = [c \in Clients |-> Idle]
  /\ calc = NoCalc
  /\ admin = AdminIdle
  /\ visitor = VisitorIdle

\* The keywords the stubs are stored with, as a client that generates a stub
\* sends them.
StubKeywords ==
  LET stubs == CreateAll(<<>>, generateSeoPages(TOP_KEYWORDS))
  IN  {Some(stubs[k].keyword) : k \in 1..Len(stubs)}

\* The two ways a stub gets generated, by two clients at once, with copies
\* counted meanwhile.
NextEquiv ==
  \/ \E c \in Clients, keyword \in StubKeywords : GenerateLookup(c, keyword)
  \/ \E c \in Clients : GenerateEmojis(c)
  \/ \E c \in Clients : GenerateWrite(c)
  \/ \E c \in Clients : BatchStart(c)
  \/ \E c \in Clients : BatchEmojis(c)
  \/ \E c \in Clients : BatchWrite(c)
  \/ \E c \in Clients, id \in CopyIds : CopyRequest(c, id)
  \/ \E c \in Clients : Receive(c)

SpecEquiv == InitSeeded /\ [][NextEquiv]_vars

\* The admin page against a server that has started.
InitAdmin ==
  /\ emojis = createEmojis(<<>>, EMOJI_DATA)
  /\ pages = <<>>
  /\ boot = [pc |-> "serving", i |-> 0, log |-> "skipping seed"]
  /\ proc = [c \in Clients |-> Idle]
  /\ calc = NoCalc
  /\ admin = AdminIdle
  /\ visitor = VisitorIdle

NextAdmin ==
  \/ BulkStart
  \/ BulkSend
  \/ \E outcome \in BulkOutcomes : BulkResponse(outcome)
  \/ BulkExit

\* The handler runs on once it is started and every request it awaits is
\* settled, by a response or by a failure; the button need not be pressed.
SpecAdmin ==
  /\ InitAdmin
  /\ [][NextAdmin]_vars
  /\ WF_vars(BulkSend)
  /\ WF_vars(\E outcome \in BulkOutcomes : BulkResponse(outcome))
  /\ WF_vars(BulkExit)

\* The number of stubs the cap of the bulk loop can just cope with.
MaxBulkPages == maxRounds * BatchLimit

\* The numbers of ungenerated stubs the bulk action is started against.
BulkStubCounts == (0..StubsBulk) \cup {MaxBulkPages}

\* The database of the bulk action: page 1 was generated before, n stubs
\* are ungenerated.
BulkPages(n) ==
  LET rows == generateSeoPages(BatchKeywords(n + 1))
      stubs == [i \in 1..(n + 1) |->
                  [createPage(<<>>, rows[i]).result[1] EXCEPT !.id = i]]
      all == createEmojis(<<>>, EMOJI_DATA)
  IN  updatePage(stubs, 1,
                 GeneratedFields(rows[1].keyword,
                                 getEmojis(all, CleanKeyword(rows[1].keyword)))).store

InitBulk ==
  /\ emojis = createEmojis(<<>>, EMOJI_DATA)
  /\ pages \in {BulkPages(n) : n \in BulkStubCounts}
  /\ boot = [pc |-> "serving", i |-> 0, log |-> "skipping seed"]
  /\ proc = [c \in Clients |-> Idle]
  /\ calc = NoCalc
  /\ admin = AdminIdle
  /\ visitor = VisitorIdle

\* The bulk action against the server's generate-batch handler, and nothing
\* else.
NextBulk ==
  \/ BulkPress
  \/ BulkSend
  \/ \E c \in OpsClients : BulkServe(c)
  \/ \E c \in OpsClients : BatchEmojis(c)
  \/ \E c \in OpsClients : BatchWrite(c)
  \/ \E c \in OpsClients : BulkReceive(c)
  \/ BulkExit

\* Once the button is pressed the handler and the server run on; the button
\* need not be pressed.
SpecBulk ==
  /\ InitBulk
  /\ [][NextBulk]_vars
  /\ WF_vars(BulkSend)
  /\ WF_vars(\E c \in OpsClients : BulkServe(c))
  /\ WF_vars(\E c \in OpsClients : BatchEmojis(c))
  /\ WF_vars(\E c \in OpsClients : BatchWrite(c))
  /\ WF_vars(\E c \in OpsClients : BulkReceive(c))
  /\ WF_vars(BulkExit)

\* The client whose requests are the page view's, and the other client.
VisitClients == {"c1"}
OtherClients == {"c2"}

\* The steps of the page view and of the server on its requests.
VisitRuns ==
  \/ \E c \in VisitClients : VisitServeFetch(c)
  \/ VisitEffect
  \/ \E c \in VisitClients : VisitServeGenerate(c)
  \/ \E c \in VisitClients : VisitServeGenerateFails(c)
  \/ \E c \in VisitClients : GenerateEmojis(c)
  \/ \E c \in VisitClients : GenerateWrite(c)
  \/ \E c \in VisitClients : GenerateFails(c)
  \/ \E c \in VisitClients : VisitReceive(c)

\* A visitor opens a page of the seeded database while another client
\* generates and edits pages.
NextVisit ==
  \/ \E slug \in PageSlugs : VisitOpen(slug)
  \/ VisitRuns
  \/ \E c \in OtherClients, keyword \in StubKeywords : GenerateLookup(c, keyword)
  \/ \E c \in OtherClients : GenerateEmojis(c)
  \/ \E c \in OtherClients : GenerateWrite(c)
  \/ \E c \in OtherClients, id \in PatchIds, body \in PatchBodies :
        PatchRequest(c, id, body)
  \/ \E c \in OtherClients : Receive(c)

\* The view and the server run on: a request sent is taken, handled and
\* answered, an effect that is due runs.  GenerateFails is enabled exactly
\* while the handler is between its awaits and every step of the handler
\* out of there disables it, so its weak fairness says no more than that
\* the handler does not stay there for ever: it leaves by its write or by a
\* failure.  The other client need not act.
SpecVisit ==
  /\ InitSeeded
  /\ [][NextVisit]_vars
  /\ WF_vars(\E c \in VisitClients : VisitServeFetch(c))
  /\ WF_vars(VisitEffect)
  /\ WF_vars(\E c \in VisitClients : VisitServeGenerate(c))
  /\ WF_vars(\E c \in VisitClients : GenerateEmojis(c))
  /\ WF_vars(\E c \in VisitClients : GenerateFails(c))
  /\ WF_vars(\E c \in VisitClients : VisitReceive(c))

\* The slug calculator is given a keyword of up to MaxLen characters.
InitSlug ==
  /\ emojis = <<>>
  /\ pages = <<>>
  /\ boot = [pc |-> "calc", i |-> 0, log |-> ""]
  /\ proc = [c \in Clients |-> Idle]
  /\ calc \in {[NoCalc EXCEPT !.keyword = Some(k)] : k \in KeywordsUpTo(MaxLen)}
  /\ admin = AdminIdle
  /\ visitor = VisitorIdle

NextSlug == CalcSlugs \/ CalcAgain

SpecSlug == InitSlug /\ [][NextSlug]_vars

\* ---------------------------------------------------- claim vocabulary

Rows(store) == {store[i] : i \in 1..Len(store)}

\* The maximal runs of a-z and 0-9 in s, in order.
RECURSIVE AlnumWords(_)
AlnumWords(s) ==
  IF s = <<>> THEN <<>>
  ELSE IF ~IsAlnum(Head(s)) THEN AlnumWords(Tail(s))
  ELSE LET n == CHOOSE i \in 1..Len(s) :
                  /\ \A j \in 1..i : IsAlnum(s[j])
                  /\ (i = Len(s) \/ ~IsAlnum(s[i + 1]))
       IN  <<SubSeq(s, 1, n)>> \o AlnumWords(SubSeq(s, n + 1, Len(s)))

\* The normalization of a keyword as the specification words it: lower-cased,
\* the runs outside a-z and 0-9 collapsed to one separator each, no separator
\* at either end; that is, the lower-cased keyword's words joined by '-'.
NormalForm(keyword) == Join(AlnumWords(toLowerCase(keyword)), <<"-">>)

\* The keyword a generating request works on: the request's keyword, or the
\* keyword of the page the batch loop stands at.
CurrentKeyword(c) ==
  IF proc[c].kind = "batch" THEN proc[c].ungenerated[proc[c].i].keyword
  ELSE proc[c].keyword[1]

\* Client c takes a step of its request.
Steps(c) == proc'[c] # proc[c]

\* ------------------------------------------------------------------ C1

\* C1: a generate request whose keyword's normalized slug names a page with
\* isGenerated = true is answered in its first step with that stored page,
\* and the step leaves the page store as it was.
C1_GenerateHitReturnsStored ==
  [][\A c \in Clients :
       (/\ proc[c].pc = "idle"
        /\ proc'[c].kind = "generate"
        /\ IsSome(proc'[c].keyword)
        /\ \E pg \in Rows(pages) :
             pg.slug = NormalForm(proc'[c].keyword[1]) /\ pg.isGenerated)
       => /\ pages' = pages
          /\ proc'[c].pc = "done"
          /\ proc'[c].resp.status = 200
          /\ IsSome(proc'[c].resp.page)
          /\ proc'[c].resp.page[1] \in Rows(pages)
          /\ proc'[c].resp.page[1].slug = NormalForm(proc'[c].keyword[1])]_vars

\* A generate request has been answered with a stored, generated page.
C1_Witness ==
  \E c \in Clients :
    /\ proc[c].pc = "done"
    /\ proc[c].kind = "generate"
    /\ proc[c].resp.status = 200
    /\ IsSome(proc[c].existingPage)
    /\ proc[c].existingPage[1].isGenerated
    /\ proc[c].resp.page = proc[c].existingPage
    /\ proc[c].existingPage[1] \in Rows(pages)

\* ------------------------------------------------------------------ C2

\* C2: a generate-batch call updates at most 5 pages, every page it updates
\* is generated afterwards, and the count it keeps and sends equals the number
\* of pages it has updated.
C2_BatchAtMostFiveAndCounted ==
  \A c \in Clients :
    proc[c].kind = "batch" =>
      /\ Cardinality(proc[c].wrote) <= 5
      /\ proc[c].generated = Cardinality(proc[c].wrote)
      /\ \A pg \in Rows(pages) : pg.id \in proc[c].wrote => pg.isGenerated
      /\ proc[c].pc = "done" => proc[c].resp.count = Some(Cardinality(proc[c].wrote))

\* A batch call has answered 5 while a page is still ungenerated.
C2_Witness ==
  \E c \in Clients :
    /\ proc[c].kind = "batch"
    /\ proc[c].pc = "done"
    /\ proc[c].resp.count = Some(5)
    /\ Cardinality(proc[c].wrote) = 5
    /\ \E pg \in Rows(pages) : ~pg.isGenerated

\* ------------------------------------------------------------------ C3

\* C3: the batch handler has no guard against a page another call generated
\* meanwhile: when its loop reaches a page that is already generated in the
\* store, it writes the page again and counts it.
C3_BatchWritesAndCountsGeneratedPage ==
  [][\A c \in Clients :
       (/\ proc[c].pc = "batch_write"
        /\ Steps(c)
        /\ \E pg \in Rows(pages) :
             pg.id = proc[c].ungenerated[proc[c].i].id /\ pg.isGenerated)
       => /\ proc'[c].generated = proc[c].generated + 1
          /\ proc[c].ungenerated[proc[c].i].id \in proc'[c].wrote
          /\ \E pg \in Rows(pages') :
               /\ pg.id = proc[c].ungenerated[proc[c].i].id
               /\ pg.content = Some(generateSeoContent(pg.keyword, proc[c].allEmojis))]_vars

\* Two overlapping batch calls have both answered, both wrote one same page,
\* and their counts add up to more than the pages that became generated (the
\* batch database starts with every page ungenerated).
C3_Witness ==
  /\ \A c \in Clients : proc[c].kind = "batch" /\ proc[c].pc = "done"
  /\ proc["c1"].wrote \cap proc["c2"].wrote # {}
  /\ proc["c1"].resp.count[1] + proc["c2"].resp.count[1]
       > Cardinality({pg \in Rows(pages) : pg.isGenerated})

\* ------------------------------------------------------------------ C4

\* C4: a copy request for an id no emoji has is answered 404.
C4_UnknownCopyAnswers404 ==
  \A c \in Clients :
    (/\ proc[c].pc = "done"
     /\ proc[c].kind = "copy"
     /\ proc[c].id \notin EmojiIds(emojis))
    => proc[c].resp.status = 404

\* ------------------------------------------------------------------ C5

\* C5: a copy request for an id an emoji has raises that emoji's copyCount by
\* exactly 1, answers 200 with the new count, and leaves every other emoji
\* and every other column of that emoji as it was.
C5_CopyRaisesByOne ==
  [][\A c \in Clients :
       (/\ proc[c].pc = "idle"
        /\ proc'[c].kind = "copy"
        /\ proc'[c].id \in EmojiIds(emojis))
       => /\ Len(emojis') = Len(emojis)
          /\ \A i \in 1..Len(emojis) :
               IF emojis[i].id = proc'[c].id
               THEN /\ emojis'[i].copyCount = emojis[i].copyCount + 1
                    /\ emojis'[i] = [emojis[i] EXCEPT !.copyCount = emojis'[i].copyCount]
                    /\ proc'[c].resp.count = Some(emojis'[i].copyCount)
               ELSE emojis'[i] = emojis[i]
          /\ proc'[c].resp.status = 200
          /\ proc'[c].pc = "done"]_vars

\* A second copy of one emoji has been answered with the count 2, and only
\* that emoji's count has moved.
C5_Witness ==
  \E c \in Clients :
    /\ proc[c].pc = "done"
    /\ proc[c].kind = "copy"
    /\ proc[c].id \in EmojiIds(emojis)
    /\ proc[c].resp.count = Some(2)
    /\ \A e \in Rows(emojis) : e.copyCount = IF e.id = proc[c].id THEN 2 ELSE 0

\* ------------------------------------------------------------------ C6

C7_SlugIsNormalizedKeyword ==
  \A pg \in Rows(pages) : pg.slug = NormalForm(pg.keyword)

\* The store holds a page generate created for a keyword that normalization
\* changes, a generated page, and a page PATCH has edited.
C7_Witness ==
  /\ \E pg \in Rows(pages) : pg.id > Len(TOP_KEYWORDS) - 1 /\ pg.slug # pg.keyword
  /\ \E pg \in Rows(pages) : pg.isGenerated /\ pg.title = <<"t">>
  /\ \E pg \in Rows(pages) : pg.content = Some(<<>>)

\* ------------------------------------------------------------------ C8

\* C8: normalizing an already normalized slug yields the same slug, and the
\* slug generate looks a keyword up by is the slug it stores for that keyword.
C8_SlugIdempotent ==
  /\ IsSome(calc.lookup) => calc.stored = calc.lookup
  /\ IsSome(calc.again) => calc.again = calc.lookup

\* A keyword that normalization changes to a non-empty slug has been
\* normalized twice.
C8_Witness ==
  /\ IsSome(calc.again)
  /\ calc.lookup # calc.keyword
  /\ calc.lookup # Some(<<>>)
  /\ Len(calc.lookup[1]) < Len(calc.keyword[1])

\* ------------------------------------------------------------------ C9

\* The position of the first ' emoji' in keyword, 0 when there is none.
FirstEmojiAt(keyword) ==
  IF \E i \in 1..Len(keyword) : MatchesAt(keyword, StrEmoji, i)
  THEN CHOOSE i \in 1..Len(keyword) :
         /\ MatchesAt(keyword, StrEmoji, i)
         /\ \A j \in 1..(i - 1) : ~MatchesAt(keyword, StrEmoji, j)
  ELSE 0

EndsWithEmoji(keyword) ==
  /\ Len(keyword) >= Len(StrEmoji)
  /\ MatchesAt(keyword, StrEmoji, Len(keyword) - Len(StrEmoji) + 1)

\* C9 as first stated: the search term is the keyword without a trailing
\* ' emoji'; a keyword that does not end in it is searched unchanged.
C9_SearchTermDropsTrailingSuffix ==
  \A c \in Clients :
    IsSome(proc[c].search) =>
      proc[c].search[1] =
        IF EndsWithEmoji(CurrentKeyword(c))
        THEN SubSeq(CurrentKeyword(c), 1, Len(CurrentKeyword(c)) - Len(StrEmoji))
        ELSE CurrentKeyword(c)

\* C9, amended: the search term is the keyword with its first ' emoji' (a
\* space and the lower-case word) removed, wherever in the keyword it stands;
\* a keyword that holds no ' emoji' is searched unchanged.
C9_SearchTermDropsFirstOccurrence ==
  \A c \in Clients :
    IsSome(proc[c].search) =>
      LET keyword == CurrentKeyword(c)
          at == FirstEmojiAt(keyword)
      IN  /\ at = 0 => proc[c].search[1] = keyword
          /\ at > 0 =>
               /\ Len(proc[c].search[1]) = Len(keyword) - Len(StrEmoji)
               /\ \A i \in 1..Len(proc[c].search[1]) :
                    proc[c].search[1][i] =
                      IF i < at THEN keyword[i] ELSE keyword[i + Len(StrEmoji)]

\* A search has been made for a keyword with ' emoji' in the middle, while
\* the other client searches for a keyword that ends in it.
C9_Witness ==
  \E c, d \in Clients :
    /\ IsSome(proc[c].search)
    /\ FirstEmojiAt(CurrentKeyword(c)) > 0
    /\ ~EndsWithEmoji(CurrentKeyword(c))
    /\ IsSome(proc[d].search)
    /\ EndsWithEmoji(CurrentKeyword(d))

\* ----------------------------------------------------------------- C10

\* The page with the given id, as an option.
PageById(ps, id) ==
  LET hit == SelectSeq(ps, LAMBDA pg : pg.id = id)
  IN  IF hit = <<>> THEN None ELSE Some(hit[1])

\* The glyphs of the first 20 rows of a search result, in its order.
FirstTwentyGlyphs(result) ==
  [i \in 1..(IF Len(result) < 20 THEN Len(result) ELSE 20) |-> result[i].emoji]

\* C10: the step in which generate or generate-batch writes a page stores, as
\* its relatedEmojis, the glyphs of the first 20 rows of the catalog search
\* the call made (all of them when there are fewer), in the order returned;
\* and no page ever has more than 20 related emojis.
C10_RelatedEmojisAreFirstTwenty ==
  [][/\ \A c \in Clients :
          (proc[c].pc \in {"gen_write", "batch_write"} /\ Steps(c) /\ pages' # pages)
          => LET id == IF proc[c].pc = "batch_write"
                       THEN proc[c].ungenerated[proc[c].i].id
                       ELSE IF IsSome(proc[c].existingPage)
                       THEN proc[c].existingPage[1].id
                       ELSE pages'[Len(pages')].id
             IN  /\ IsSome(PageById(pages', id))
                 /\ PageById(pages', id)[1].isGenerated
                 /\ PageById(pages', id)[1].relatedEmojis
                      = Some(FirstTwentyGlyphs(proc[c].allEmojis))
     /\ \A pg \in Rows(pages') :
          IsSome(pg.relatedEmojis) => Len(pg.relatedEmojis[1]) <= 20]_vars

\* A page holds exactly 20 related emojis while its search matches more than
\* 20 rows of the catalog, and another generated page holds fewer than 20.
C10_Witness ==
  /\ \E pg \in Rows(pages) :
       /\ pg.isGenerated
       /\ IsSome(pg.relatedEmojis)
       /\ Len(pg.relatedEmojis[1]) = 20
       /\ Len(getEmojis(emojis, CleanKeyword(pg.keyword))) > 20
       /\ pg.relatedEmojis[1]
            = FirstTwentyGlyphs(getEmojis(emojis, CleanKeyword(pg.keyword)))
  /\ \E pg \in Rows(pages) :
       /\ pg.isGenerated
       /\ IsSome(pg.relatedEmojis)
       /\ Len(pg.relatedEmojis[1]) \in 1..19


\* ---------------------------------------------------------------- C11

\* A page row with the three generated columns blanked: the columns
\* generation must leave alone.
KeptColumns(row) ==
  [row EXCEPT !.content = None, !.relatedEmojis = None, !.isGenerated = FALSE]

\* C11: when generate found a page under the keyword's slug, its write leaves
\* the number of pages unchanged and every other page as it was; the page it
\* found keeps its id, slug, keyword, title and metaDescription, and its
\* content, relatedEmojis and isGenerated (true) are the generated ones.  A
\* write of generate adds a row only when no page had the keyword's slug.
C11_GenerateUpdatesStubInPlace ==
  [][\A c \in Clients :
       (proc[c].pc = "gen_write" /\ proc'[c].pc = "done") =>
         LET keyword == proc[c].keyword[1]
             existingPage == proc[c].existingPage
         IN  /\ IsSome(existingPage) =>
                  /\ Len(pages') = Len(pages)
                  /\ \A i \in 1..Len(pages) :
                        IF pages[i].id = existingPage[1].id
                        THEN /\ KeptColumns(pages'[i]) = KeptColumns(pages[i])
                             /\ pages'[i].slug = Slugify(keyword)
                             /\ pages'[i].isGenerated
                             /\ pages'[i].content =
                                  Some(generateSeoContent(keyword, proc[c].allEmojis))
                             /\ pages'[i].relatedEmojis =
                                  Some(RelatedEmojiChars(proc[c].allEmojis))
                        ELSE pages'[i] = pages[i]
             /\ Len(pages') # Len(pages) =>
                  /\ ~IsSome(existingPage)
                  /\ \A i \in 1..Len(pages) : pages[i].slug # Slugify(keyword)
                  /\ Len(pages') = Len(pages) + 1
                  /\ SubSeq(pages', 1, Len(pages)) = pages
                  /\ pages'[Len(pages')].slug = Slugify(keyword)
                  /\ pages'[Len(pages')].isGenerated]_vars

\* A generate request found an ungenerated stub whose title had been edited,
\* and has written it: the stub is generated and still holds the edited title.
C11_Witness ==
  \E c \in Clients :
    /\ proc[c].pc = "done"
    /\ proc[c].kind = "generate"
    /\ IsSome(proc[c].existingPage)
    /\ ~proc[c].existingPage[1].isGenerated
    /\ proc[c].existingPage[1].title = <<"t">>
    /\ proc[c].wrote = {proc[c].existingPage[1].id}
    /\ \E i \in 1..Len(pages) :
          /\ pages[i].id = proc[c].existingPage[1].id
          /\ pages[i].isGenerated
          /\ pages[i].title = <<"t">>


\* ---------------------------------------------------------------- C14

\* C14: a generate request whose keyword is missing or empty is answered 400
\* in the step that takes it: neither store changes in that step, the handler
\* holds nothing it would have read from a store, and it never goes on to
\* the search or the write.
C14_MissingKeywordAnswers400 ==
  [][\A c \in Clients :
       (proc'[c].kind = "generate" /\ proc'[c].keyword \in {None, Some(<<>>)}) =>
         /\ proc'[c].pc = "done"
         /\ proc'[c].resp.status = 400
         /\ proc'[c].resp.page = None
         /\ proc'[c].existingPage = None
         /\ proc'[c].search = None
         /\ proc'[c].allEmojis = <<>>
         /\ proc'[c].wrote = {}
         /\ (proc[c].pc = "idle" => (pages' = pages /\ emojis' = emojis))]_vars

\* A generate request with an empty keyword has been answered 400 while the
\* page store holds the seeded stubs.
C14_Witness ==
  \E c \in Clients :
    /\ proc[c].kind = "generate"
    /\ proc[c].keyword = Some(<<>>)
    /\ proc[c].pc = "done"
    /\ proc[c].resp.status = 400
    /\ proc[c].resp.message = "Keyword is required"
    /\ Len(pages) > 0


\* ---------------------------------------------------------------- C20

\* C20: no two rows of the page store share a slug, whatever the
\* interleaving of the generate calls.
C20_SlugsAreUnique ==
  \A i, j \in 1..Len(pages) : pages[i].slug = pages[j].slug => i = j

\* Two generate calls for different keywords with the same slug both found no
\* page and both have written: one page holds the slug, and only one of the
\* calls got a row back.
C20_Witness ==
  /\ \A c \in Clients :
        /\ proc[c].pc = "done"
        /\ proc[c].kind = "generate"
        /\ proc[c].existingPage = None
        /\ proc[c].resp.status = 201
  /\ proc["c1"].keyword # proc["c2"].keyword
  /\ Slugify(proc["c1"].keyword[1]) = Slugify(proc["c2"].keyword[1])
  /\ IsSome(proc["c1"].resp.page)
  /\ ~IsSome(proc["c2"].resp.page)
  /\ \E i \in 1..Len(pages) : pages[i].slug = Slugify(proc["c1"].keyword[1])


\* ---------------------------------------------------------------- C15

\* C15: a bulk action that has started comes to its end with the running
\* flag cleared; it sends at most 100 generate-batch requests; a response
\* with generated = 0 and a failed request are each the last request of the
\* action; and whenever the action is not in progress the flag is clear.
C15_BulkLoopTerminates ==
  /\ (admin.isRunningBulk ~> (admin.pc = "finished" /\ ~admin.isRunningBulk))
  /\ [](admin.requests <= maxRounds)
  /\ [](admin.pc \in {"idle", "finished"} => ~admin.isRunningBulk)
  /\ [][/\ (admin.pc = "await" /\ (admin'.caught \/ admin'.data = Some(0)))
            => admin'.pc = "exit"
        /\ (admin.pc = "exit" \/ admin.caught \/ admin.data = Some(0))
            => (admin'.requests = admin.requests \/ admin.pc = "finished")
        /\ admin.pc = "exit" => (admin'.pc = "finished" /\ ~admin'.isRunningBulk)]_vars

\* The bulk action has ended at the cap: 100 requests, none answered 0 and
\* none failed, and the flag is cleared.
C15_Witness ==
  /\ admin.pc = "finished"
  /\ admin.requests = maxRounds
  /\ admin.i = maxRounds
  /\ ~admin.caught
  /\ admin.data # Some(0)
  /\ ~admin.isRunningBulk


\* ---------------------------------------------------------------- C12

\* C12: every request whose store call failed has been answered, with
\* status 500 and a message.
C12_StoreFailureAnswers500 ==
  \A c \in Clients :
    proc[c].failed =>
      /\ proc[c].pc = "done"
      /\ proc[c].resp.status = 500
      /\ proc[c].resp.message # ""

\* ---------------------------------------------------------------- C13

\* C13: a request for an emoji by slug, for a page by slug or to PATCH a page
\* by id, whose store call did not fail, answers 404 when no row has the slug
\* or id, and then both stores are as before; when the row exists it answers
\* 200 with that row (for PATCH: the row as updated).
C13_MissingRecordAnswers404 ==
  [][\A c \in Clients :
       (proc[c].pc = "idle" /\ proc'[c].pc = "done" /\ ~proc'[c].failed) =>
         LET q == proc'[c]
         IN  /\ q.kind = "emoji" =>
                  IF \A e \in Rows(emojis) : e.slug # q.slug[1]
                  THEN /\ q.resp.status = 404
                       /\ q.resp.emoji = None
                       /\ emojis' = emojis /\ pages' = pages
                  ELSE /\ q.resp.status = 200
                       /\ IsSome(q.resp.emoji)
                       /\ q.resp.emoji[1] \in Rows(emojis)
                       /\ q.resp.emoji[1].slug = q.slug[1]
             /\ q.kind = "page" =>
                  IF \A pg \in Rows(pages) : pg.slug # q.slug[1]
                  THEN /\ q.resp.status = 404
                       /\ q.resp.page = None
                       /\ emojis' = emojis /\ pages' = pages
                  ELSE /\ q.resp.status = 200
                       /\ IsSome(q.resp.page)
                       /\ q.resp.page[1] \in Rows(pages)
                       /\ q.resp.page[1].slug = q.slug[1]
             /\ q.kind = "patch" =>
                  IF \A pg \in Rows(pages) : pg.id # q.id
                  THEN /\ q.resp.status = 404
                       /\ q.resp.page = None
                       /\ emojis' = emojis /\ pages' = pages
                  ELSE /\ q.resp.status = 200
                       /\ IsSome(q.resp.page)
                       /\ q.resp.page[1] \in Rows(pages')
                       /\ q.resp.page[1].id = q.id]_vars

\* A page was asked for by a slug no page has, while the stubs exist: the
\* answer is 404.
C13_Witness ==
  \E c \in Clients :
    /\ proc[c].pc = "done"
    /\ proc[c].kind = "page"
    /\ ~proc[c].failed
    /\ proc[c].slug = Some(<<"n", "o">>)
    /\ proc[c].resp.status = 404
    /\ proc[c].resp.message = "Page not found"
    /\ Len(pages) > 0

\* ---------------------------------------------------------------- C16

\* The slugs of the keywords of the fixed list.
SeedSlugs == {Slugify(TOP_KEYWORDS[k]) : k \in 1..Len(TOP_KEYWORDS)}

\* C16: whenever the server is serving, the catalog holds every seed emoji
\* exactly once and a page exists for every keyword of the fixed list.
C16_ServingStoresAreSeeded ==
  Serving =>
    /\ Len(emojis) = Len(EMOJI_DATA)
    /\ \A k \in 1..Len(EMOJI_DATA) :
          \E i \in 1..Len(emojis) : emojis[i].emoji = EMOJI_DATA[k].emoji
    /\ \A slug \in SeedSlugs : \E i \in 1..Len(pages) : pages[i].slug = slug

\* ---------------------------------------------------------------- C17

\* C17: a startup that finds an emoji in the catalog changes neither store on
\* its way to serving, and the seed proper is entered only from an empty
\* catalog.
C17_SeedSkippedWhenCatalogNonEmpty ==
  [][/\ (boot.pc = "start" /\ Len(emojis) > 0) =>
          /\ emojis' = emojis
          /\ pages' = pages
          /\ boot'.pc \in {"serving", "start"}
     /\ (boot.pc = "start" /\ boot'.pc = "emojis") => Len(emojis) = 0]_vars

\* The server was started again after a completed seed and serves: the seed
\* was skipped, the catalog and both stubs are there, and page 1 is still
\* generated and still holds its edited title.
C17_Witness ==
  /\ Serving
  /\ boot.log = "skipping seed"
  /\ Len(emojis) = Len(EMOJI_DATA)
  /\ Len(pages) = Cardinality(SeedSlugs)
  /\ pages[1].isGenerated
  /\ pages[1].title = <<"t">>

\* ---------------------------------------------------------------- C18

\* C18: no step removes an emoji row, lowers a copy count or changes another
\* column of a row; and once the server serves, the catalog changes only in
\* the step of a copy request, which raises the count of the row with the
\* requested id by one.
C18_EmojisChangeOnlyByCopy ==
  [][/\ Len(emojis') >= Len(emojis)
     /\ \A i \in 1..Len(emojis) :
           /\ emojis'[i].copyCount >= emojis[i].copyCount
           /\ [emojis'[i] EXCEPT !.copyCount = 0] = [emojis[i] EXCEPT !.copyCount = 0]
     /\ (Serving /\ emojis' # emojis) =>
           \E c \in Clients :
             /\ proc[c].pc = "idle"
             /\ proc'[c].pc = "done"
             /\ proc'[c].kind = "copy"
             /\ \E i \in 1..Len(emojis) :
                   /\ emojis[i].id = proc'[c].id
                   /\ emojis' = [emojis EXCEPT ![i].copyCount = @ + 1]]_vars

\* An emoji was copied MaxCopies times and then asked for by its slug, with a
\* page generated in between: the row returned holds the count the copies
\* left.
C18_Witness ==
  \E c \in Clients :
    /\ proc[c].pc = "done"
    /\ proc[c].kind = "emoji"
    /\ proc[c].resp.status = 200
    /\ proc[c].resp.emoji[1].copyCount = MaxCopies
    /\ \E i \in 1..Len(emojis) : emojis[i] = proc[c].resp.emoji[1]
    /\ \E i \in 1..Len(pages) : pages[i].isGenerated

\* ---------------------------------------------------------------- C19

\* C19: in every step, requests and restarts alike, every page id and every
\* emoji id of the stores is still there afterwards, and every slug a page
\* is found under is afterwards found with the same page id.
C19_RecordsAreNeverRemoved ==
  [][/\ PageIds(pages) \subseteq PageIds(pages')
     /\ EmojiIds(emojis) \subseteq EmojiIds(emojis')
     /\ \A i \in 1..Len(pages) :
           LET before == getPageBySlug(pages, pages[i].slug)
               after == getPageBySlug(pages', pages[i].slug)
           IN  IsSome(after) /\ after[1].id = before[1].id]_vars

\* After a restart, a PATCH whose body also named a slug and isGenerated has
\* been answered: the page has the new content and is still found under its
\* slug.
C19_Witness ==
  \E c \in Clients :
    /\ boot.log = "skipping seed"
    /\ proc[c].pc = "done"
    /\ proc[c].kind = "patch"
    /\ proc[c].resp.status = 200
    /\ proc[c].resp.page[1].content = Some(<<>>)
    /\ getPageBySlug(pages, Slugify(TOP_KEYWORDS[1])) = proc[c].resp.page


\* ---------------------------------------------------------------- C21

\* C21: whichever of generate (sent the stub's keyword) and generate-batch
\* writes a stub first, a later write of the other leaves the row exactly as
\* it is, whatever copies were counted in between: both write the same
\* content and relatedEmojis and set isGenerated; and no write touches the
\* other columns of a page.
C21_GenerateAndBatchWriteTheSamePage ==
  [][\A i \in 1..Len(pages) :
       /\ pages[i].isGenerated => pages'[i] = pages[i]
       /\ KeptColumns(pages'[i]) = KeptColumns(pages[i])
       /\ pages'[i] # pages[i] =>
            /\ pages'[i].isGenerated
            /\ IsSome(pages'[i].content)
            /\ IsSome(pages'[i].relatedEmojis)]_vars

\* Page 1 has been written by a generate call and by a generate-batch call
\* that both read it ungenerated, with a copy counted before the second
\* search.
C21_Witness ==
  /\ pages[1].isGenerated
  /\ \E c, d \in Clients :
        /\ proc[c].pc = "done" /\ proc[c].kind = "generate" /\ proc[c].wrote = {1}
        /\ ~proc[c].existingPage[1].isGenerated
        /\ proc[d].pc = "done" /\ proc[d].kind = "batch" /\ 1 \in proc[d].wrote
  /\ \E i \in 1..Len(emojis) : emojis[i].copyCount > 0


\* ---------------------------------------------------------------- C22

\* C22: the step in which a store operation of generate-batch fails changes
\* no page; the answer is 500 with a message and without a count; every page
\* the handler updated before is generated, and every page of its selection
\* it had not updated yet is ungenerated.
C22_BatchFailureKeepsPartialWork ==
  [][\A c \in Clients :
       (proc[c].kind \in {"none", "batch"} /\ ~proc[c].failed
          /\ proc'[c].kind = "batch" /\ proc'[c].failed) =>
         /\ pages' = pages
         /\ proc'[c].pc = "done"
         /\ proc'[c].resp.status = 500
         /\ proc'[c].resp.message # ""
         /\ proc'[c].resp.count = None
         /\ proc'[c].wrote = proc[c].wrote
         /\ \A pg \in Rows(pages') :
               /\ pg.id \in proc[c].wrote => pg.isGenerated
               /\ (\E j \in 1..Len(proc[c].ungenerated) :
                      /\ proc[c].ungenerated[j].id = pg.id
                      /\ pg.id \notin proc[c].wrote) => ~pg.isGenerated]_vars

\* generate-batch failed at its third page: two pages of its selection are
\* generated, three are not, and the answer is a 500 without a count.
C22_Witness ==
  \E c \in Clients :
    /\ proc[c].pc = "done"
    /\ proc[c].kind = "batch"
    /\ proc[c].failed
    /\ proc[c].i = 3
    /\ proc[c].generated = 2
    /\ Cardinality(proc[c].wrote) = 2
    /\ Len(proc[c].ungenerated) = BatchLimit
    /\ Cardinality({pg \in Rows(pages) : pg.isGenerated}) = 2
    /\ proc[c].resp.status = 500
    /\ proc[c].resp.count = None


\* ---------------------------------------------------------------- C23

\* C23: the content, title and metaDescription of a page that is generated
\* change only in the step of a PATCH request for that page.
C23_GeneratedPageChangesOnlyByPatch ==
  [][\A i \in 1..Len(pages) :
       (/\ pages[i].isGenerated
        /\ \/ pages'[i].content # pages[i].content
           \/ pages'[i].title # pages[i].title
           \/ pages'[i].metaDescription # pages[i].metaDescription) =>
         \E c \in Clients :
           /\ proc[c].pc = "idle"
           /\ proc'[c].kind = "patch"
           /\ proc'[c].id = pages[i].id]_vars


\* ---------------------------------------------------------------- C25

\* C25: no step takes isGenerated of a page from true to false; the flag
\* changes only in a write of generate or generate-batch; and the step of a
\* PATCH request leaves isGenerated, relatedEmojis, slug and keyword of every
\* page as they were.
C25_GeneratedFlagNeverCleared ==
  [][/\ \A i \in 1..Len(pages) :
           /\ pages[i].isGenerated => pages'[i].isGenerated
           /\ pages'[i].isGenerated # pages[i].isGenerated =>
                \E c \in Clients : proc[c].pc \in {"gen_write", "batch_write"}
                                    /\ proc'[c] # proc[c]
     /\ (\E c \in Clients : proc[c].pc = "idle" /\ proc'[c].kind = "patch") =>
           /\ Len(pages') = Len(pages)
           /\ \A i \in 1..Len(pages) :
                 /\ pages'[i].isGenerated = pages[i].isGenerated
                 /\ pages'[i].relatedEmojis = pages[i].relatedEmojis
                 /\ pages'[i].slug = pages[i].slug
                 /\ pages'[i].keyword = pages[i].keyword]_vars

\* A PATCH whose body names isGenerated: false and a slug has been applied
\* to a generated page: the content is the body's, the page is still
\* generated and still has its related emojis.
C25_Witness ==
  \E c \in Clients :
    /\ proc[c].pc = "done"
    /\ proc[c].kind = "patch"
    /\ proc[c].resp.status = 200
    /\ proc[c].resp.page[1].content = Some(<<>>)
    /\ proc[c].resp.page[1].isGenerated
    /\ IsSome(proc[c].resp.page[1].relatedEmojis)
    /\ proc[c].resp.page[1] \in Rows(pages)


\* ---------------------------------------------------------------- C26

\* C26: every page with isGenerated = true has non-empty content: its view
\* does not show the placeholder.
C26_GeneratedPageHasContent ==
  \A pg \in Rows(pages) : pg.isGenerated => ~ShowsPlaceholder(pg)


\* ---------------------------------------------------------------- C28

\* C28: when a generate call with an accepted keyword is answered, exactly
\* one page has the keyword's slug; if a page had that slug before the
\* answering step, the step adds no page and leaves id, slug, keyword, title
\* and metaDescription of every page as they were; a call that found a page
\* answers with that page; and a page in the answer always has the slug of
\* the requested keyword.
C28_GenerateKeepsOnePagePerSlug ==
  [][\A c \in Clients :
       (/\ proc[c].pc \in {"idle", "gen_write"}
        /\ proc'[c].pc = "done"
        /\ proc'[c].kind = "generate"
        /\ proc'[c].resp.status # 400) =>
         LET q == proc'[c]
             slug == Slugify(q.keyword[1])
             had == {pg \in Rows(pages) : pg.slug = slug}
         IN  /\ Cardinality({pg \in Rows(pages') : pg.slug = slug}) = 1
             /\ had # {} =>
                  /\ Len(pages') = Len(pages)
                  /\ \A i \in 1..Len(pages) :
                        /\ pages'[i].id = pages[i].id
                        /\ pages'[i].slug = pages[i].slug
                        /\ pages'[i].keyword = pages[i].keyword
                        /\ pages'[i].title = pages[i].title
                        /\ pages'[i].metaDescription = pages[i].metaDescription
             /\ IsSome(q.existingPage) =>
                  /\ IsSome(q.resp.page)
                  /\ \E pg \in had : pg.id = q.resp.page[1].id
             /\ IsSome(q.resp.page) =>
                  /\ q.resp.page[1].slug = slug
                  /\ q.resp.page[1] \in Rows(pages')]_vars

\* generate was called with another spelling of a stub's keyword and has
\* updated the stub: the page it answers with holds the stub's keyword and
\* title, not the requested ones.
C28_Witness ==
  \E c \in Clients :
    /\ proc[c].pc = "done"
    /\ proc[c].kind = "generate"
    /\ proc[c].resp.status = 200
    /\ proc[c].wrote # {}
    /\ proc[c].keyword[1] # proc[c].resp.page[1].keyword
    /\ proc[c].resp.page[1].keyword = TOP_KEYWORDS[1]
    /\ proc[c].resp.page[1].title = PageTitle(TOP_KEYWORDS[1])
    /\ proc[c].resp.page[1].slug = Slugify(proc[c].keyword[1])
    /\ Len(pages) = Cardinality(SeedSlugs)


\* ---------------------------------------------------------------- C29

\* C29: every page of the store has a non-empty slug.
C29_PagesHaveNonEmptySlug ==
  \A pg \in Rows(pages) : pg.slug # <<>>


\* ---------------------------------------------------------------- C24

\* The pages of the bulk database that the bulk action found ungenerated and
\* that are generated now: all generated pages but page 1.
ChangedToGenerated == {pg \in Rows(pages) : pg.isGenerated /\ pg.id # 1}

\* C24: a bulk action started with at most 500 ungenerated pages comes to
\* its end, and at its end no page is ungenerated and its total is the
\* number of pages that went from ungenerated to generated.
C24_BulkGeneratesEveryPage ==
  /\ (admin.isRunningBulk ~> admin.pc = "finished")
  /\ [](admin.pc = "finished" =>
          /\ \A pg \in Rows(pages) : pg.isGenerated
          /\ admin.total = Cardinality(ChangedToGenerated)
          /\ admin.total = Len(pages) - 1
          /\ ~admin.caught)

\* The bulk action has ended against the database of StubsBulk stubs: its
\* last request was answered 0, it reports StubsBulk pages, and all of them
\* are generated.
C24_Witness ==
  /\ admin.pc = "finished"
  /\ admin.data = Some(0)
  /\ admin.requests > 2
  /\ admin.total = StubsBulk
  /\ Len(pages) = StubsBulk + 1
  /\ \A pg \in Rows(pages) : pg.isGenerated


\* ---------------------------------------------------------------- C27

\* C27: the view sends a generate request only for a fetched page that is
\* ungenerated, with that page's keyword, and while none is pending; once a
\* request has succeeded and the refetch is answered the page it holds is
\* generated; it sends no request after a success, and at most one in all;
\* once the effect has run on an ungenerated page a request has been sent;
\* and it comes to rest, with nothing pending, for good.
C27_VisitorGeneratesOnce ==
  /\ [][visitor'.requests # visitor.requests =>
          /\ ~visitor.isPending
          /\ IsSome(visitor.page)
          /\ ~visitor.page[1].isGenerated
          /\ visitor'.sent = Some(visitor.page[1].keyword)
          /\ visitor.succeeded = 0]_vars
  /\ []((visitor.succeeded > 0 /\ visitor.net = "none") =>
          (IsSome(visitor.page) /\ visitor.page[1].isGenerated))
  /\ [](visitor.requests <= 1)
  /\ []((IsSome(visitor.page) /\ ~visitor.page[1].isGenerated /\ ~visitor.effect)
          => visitor.requests = 1)
  /\ <>[](visitor.net = "none" /\ ~visitor.effect /\ ~visitor.isPending)

\* The visitor opened an ungenerated stub, the one generate request
\* succeeded and the refetch is answered: the view holds the generated page
\* and is at rest.
C27_Witness ==
  /\ visitor.requests = 1
  /\ visitor.succeeded = 1
  /\ visitor.net = "none"
  /\ ~visitor.effect
  /\ ~visitor.isPending
  /\ visitor.page[1].isGenerated
  /\ visitor.page[1].slug = visitor.slug[1]
  /\ visitor.page[1] \in Rows(pages)

====
